---- MODULE Spec2Model ----
(***************************************************************************)
(* Adaptive large neighbourhood search for the VRPLDTT (ALNSv2).           *)
(*                                                                         *)
(* The model follows the C++ sources: route_evaluate (evaluate.cpp),       *)
(* Solution (solution.cpp, solution.h), the destroy and repair operators   *)
(* (operator.cpp), RouletteWheel (roulette_wheel.cpp, roulette_wheel.h)    *)
(* and the driver ALNS::solve (alns.cpp, init.cpp).                        *)
(*                                                                         *)
(* Conventions.  std::vector<T> of size n is a function with domain        *)
(* 0..n-1; a route is a sequence and position p of the code is element     *)
(* p+1 of the sequence.  Customer ids are 0-based, node ids are            *)
(* customer id + 1, node 0 is the depot.  Times, demands and loads are     *)
(* integers.  The error weights and the qualities built from them are      *)
(* fixed-point numbers with WeightScale units per 1.0; wheel weights and   *)
(* scores are fixed-point numbers with WheelScale units per 1.0.           *)
(***************************************************************************)
EXTENDS Integers, Sequences, FiniteSets, TLC

VARIABLES
    data_obj,     \* the ALNSData instance the run works on (never written)
    alns,         \* the fields of the ALNS object
    frame,        \* the activation of ALNS::solve: position and locals
    twin_alns,    \* a second ALNS object, run on the same instance and seed
    twin_frame,   \* the activation of solve on the second object
    bench         \* a Solution or a wheel under a single call, outside solve

vars == <<data_obj, alns, frame, twin_alns, twin_frame, bench>>

-----------------------------------------------------------------------------
(* Numeric representation *)

\* std::numeric_limits<double>::max()
DBL_MAX == 1000000

\* units per 1.0 of capa_error_weight, frame_error_weight and the qualities
WeightScale == 100

\* units per 1.0 of the wheel weights and scores
WheelScale == 1000

\* UNI is drawn as u / UniDen with u in 0..UniDen-1
UniDen == 8

\* exp(-(dq)/T) is drawn as p / RelDen with p in 0..RelDen
RelDen == 2

\* the measured execution time of an iteration is 1..MaxExecMs milliseconds
MaxExecMs == 1

\* the run is followed for MaxIteration iterations of the main loop
MaxIteration == 2

UniDraws == 0..(UniDen - 1)

Max(a, b) == IF a >= b THEN a ELSE b
Min(a, b) == IF a <= b THEN a ELSE b

\* std::vector<T>(n, v)
Vec(n, v) == [i \in 0..(n - 1) |-> v]

Size(v) == Cardinality(DOMAIN v)

\* route.insert(route.begin() + pos, x)
insert_at(route, pos, x) ==
    SubSeq(route, 1, pos) \o <<x>> \o SubSeq(route, pos + 1, Len(route))

\* tools::remove_at
remove_at(v, n) == SubSeq(v, 1, n) \o SubSeq(v, n + 2, Len(v))

\* tools::range(max)
range(max) == [i \in 1..max |-> i - 1]

\* tools::rand_number(max, min) = int(round(UNI*(max - min) + min)), UNI = u/UniDen
rand_number(max, min, u) ==
    min + ((2 * u * (max - min) + UniDen) \div (2 * UniDen))

-----------------------------------------------------------------------------
(* Problem instances (ALNSData).  time_cube[level][from][to].               *)

\* level-0 travel times between the depot and three customers
TimeBaseA ==
    <<  <<0, 2, 2, 3>>,
        <<2, 0, 1, 2>>,
        <<2, 2, 0, 1>>,
        <<3, 2, 1, 0>> >>

\* level-0 travel times of customers close to the depot and far from each
\* other
TimeBaseB ==
    <<  <<0, 1, 1, 1>>,
        <<1, 0, 3, 3>>,
        <<1, 3, 0, 3>>,
        <<1, 3, 3, 0>> >>

\* one more time unit per load level on every arc between two nodes
MakeTimeCube(base, nr_levels) ==
    [l \in 0..(nr_levels - 1) |->
        [i \in 0..(Len(base) - 1) |->
            [j \in 0..(Len(base) - 1) |->
                IF i = j THEN 0 ELSE base[i + 1][j + 1] + l]]]

MaxOf(v) == CHOOSE m \in {v[i] : i \in DOMAIN v} : \A i \in DOMAIN v : v[i] <= m

\* ALNSData constructor: add_pseudo_capacity = ceil(max demand), the time cube
\* has ceil((vehicle_cap + add_pseudo_capacity) / load_bucket_size) levels
MakeData(nr_veh, demand, service, start_w, end_w, base, bucket, cap) ==
    LET pseudo == MaxOf(demand)
        levels == (cap + pseudo + bucket - 1) \div bucket
    IN  [nr_vehicles |-> nr_veh,
         nr_nodes |-> Size(demand) + 1,
         nr_customer |-> Size(demand),
         demand |-> demand,
         service_times |-> service,
         start_window |-> start_w,
         end_window |-> end_w,
         time_cube |-> MakeTimeCube(base, levels),
         load_bucket_size |-> bucket,
         vehicle_cap |-> cap,
         add_pseudo_capacity |-> pseudo]

\* three unit demands, two vehicles of capacity 2: every split 2+1 respects
\* the capacity, a route of three reaches the pseudo capacity
InstanceA ==
    MakeData(2,
        [i \in 0..2 |-> 1],
        [i \in 0..2 |-> 1],
        [i \in 0..2 |-> <<0, 3, 0>>[i + 1]],
        [i \in 0..2 |-> <<20, 8, 5>>[i + 1]],
        TimeBaseA, 1, 2)

\* demands 1,1,3 and two vehicles of capacity 1: the fleet is too small for
\* the total demand, the padded capacity (a load below 4) still admits the
\* initial solutions that put the two small customers into one route
InstanceB ==
    MakeData(2,
        [i \in 0..2 |-> <<1, 1, 3>>[i + 1]],
        [i \in 0..2 |-> 1],
        [i \in 0..2 |-> 0],
        [i \in 0..2 |-> 20],
        TimeBaseB, 2, 1)

Instances == {InstanceA, InstanceB}

Customers == 0..(data_obj.nr_customer - 1)
RouteIds == 0..(data_obj.nr_vehicles - 1)

-----------------------------------------------------------------------------
(* route_evaluate *)

\* int((customer_demand - 0.3) / load_bucket_size): the cast truncates towards
\* zero, so an integer demand d >= 1 lands in bucket (d-1) div size
get_load_bucket(customer_demand, load_bucket_size) ==
    IF customer_demand <= 0 THEN 0
    ELSE (customer_demand - 1) \div load_bucket_size

RECURSIVE load_levels_loop(_, _, _, _, _)
load_levels_loop(loads, load_levels, route, route_pos, new_load) ==
    IF route_pos < 0 THEN [loads |-> loads, load_levels |-> load_levels]
    ELSE LET customer_id == route[route_pos + 1]
             nl == new_load + data_obj.demand[customer_id]
         IN  load_levels_loop(
                 [loads EXCEPT ![customer_id] = nl],
                 [load_levels EXCEPT ![customer_id] =
                     get_load_bucket(nl, data_obj.load_bucket_size)],
                 route, route_pos - 1, nl)

\* an update that starts from an empty vehicle whatever follows end_pos
update_load_levels_from_zero(loads, load_levels, route, end_pos) ==
    IF Len(route) > 0
    THEN load_levels_loop(loads, load_levels, route, end_pos, 0)
    ELSE [loads |-> loads, load_levels |-> load_levels]

\* end_pos is an unsigned int in the code: -1 wraps to UINT_MAX, which is not
\* below r_size - 1, and converts back to -1 as the loop start
update_load_levels(loads, load_levels, route, end_pos) ==
    IF Len(route) > 0
    THEN LET start_load ==
                 IF end_pos >= 0 /\ end_pos < Len(route) - 1
                 THEN loads[route[end_pos + 2]] ELSE 0
         IN  load_levels_loop(loads, load_levels, route, end_pos, start_load)
    ELSE [loads |-> loads, load_levels |-> load_levels]

RECURSIVE visit_times_loop(_, _, _, _, _, _, _, _)
visit_times_loop(dt, arr, dep, route, load_levels, route_pos, prev_node_id, current_time) ==
    IF route_pos >= Len(route)
    THEN [route_driving_time |-> dt + data_obj.time_cube[0][prev_node_id][0],
          arrival_times |-> arr, departure_times |-> dep]
    ELSE LET customer_id == route[route_pos + 1]
             node_id == customer_id + 1
             ctoctime == data_obj.time_cube[load_levels[customer_id]][prev_node_id][node_id]
             arrival == Max(current_time + ctoctime, data_obj.start_window[customer_id])
             departure == arrival + data_obj.service_times[customer_id]
         IN  visit_times_loop(dt + ctoctime,
                 [arr EXCEPT ![customer_id] = arrival],
                 [dep EXCEPT ![customer_id] = departure],
                 route, load_levels, route_pos + 1, node_id, departure)

\* an evaluation that reports the duration of the route, waiting and service
\* included, as its driving time
update_visit_times_duration(arrival_times, departure_times, starting_time, route, load_levels) ==
    [visit_times_loop(0, arrival_times, departure_times, route, load_levels, 0, 0, starting_time)
     EXCEPT !.route_driving_time =
         IF Len(route) = 0 THEN 0
         ELSE visit_times_loop(0, arrival_times, departure_times, route, load_levels,
                  0, 0, starting_time).departure_times[route[Len(route)]]
              + data_obj.time_cube[0][route[Len(route)] + 1][0] - starting_time]

update_visit_times(arrival_times, departure_times, starting_time, route, load_levels) ==
    visit_times_loop(0, arrival_times, departure_times, route, load_levels, 0, 0, starting_time)

get_starting_time(route, load_levels) ==
    IF Len(route) > 0
    THEN LET first_customer_id == route[1]
         IN  Max(0, data_obj.start_window[first_customer_id]
                    - data_obj.time_cube[load_levels[first_customer_id]][0][first_customer_id + 1])
    ELSE 0

\* time + capa_error_weight * capa_error + frame_error * frame_error_weight,
\* in units of 1/WeightScale
get_quality(time, capa_error, frame_error, capa_error_weight, frame_error_weight) ==
    time * WeightScale + capa_error_weight * capa_error + frame_error * frame_error_weight

get_capa_error(route, loads) ==
    IF Len(route) > 0 /\ loads[route[1]] - data_obj.vehicle_cap > 0
    THEN loads[route[1]] - data_obj.vehicle_cap
    ELSE 0

RECURSIVE get_frame_error(_, _)
get_frame_error(route, arrival_times) ==
    IF route = <<>> THEN 0
    ELSE LET late_diff == arrival_times[Head(route)] - data_obj.end_window[Head(route)]
         IN  (IF late_diff > 0 THEN late_diff ELSE 0)
             + get_frame_error(Tail(route), arrival_times)

\* -1 stands for the logic_error "The customer was not found in the route"
get_customer_pos(route, customer_id) ==
    IF \E p \in 1..Len(route) : route[p] = customer_id
    THEN (CHOOSE p \in 1..Len(route) :
             /\ route[p] = customer_id
             /\ \A q \in 1..(p - 1) : route[q] /= customer_id) - 1
    ELSE -1

update_route_chromosome(route_chromosome, route, route_id) ==
    [c \in DOMAIN route_chromosome |->
        IF \E p \in 1..Len(route) : route[p] = c THEN route_id ELSE route_chromosome[c]]

-----------------------------------------------------------------------------
(* Solution *)

\* Solution(ALNSData&): only driving_time is initialised (DBL_MAX); the
\* vectors are empty, capa_error and frame_error have their in-class default
\* 0.0, is_feasible and solution_quality are left uninitialised and read as
\* whatever the storage holds (garbage_feasible, garbage_quality)
NullSolution(garbage_feasible, garbage_quality) ==
    [solution_representation |-> <<>>,
     route_chromosome |-> <<>>,
     loads |-> <<>>,
     load_levels |-> <<>>,
     arrival_times |-> <<>>,
     departure_times |-> <<>>,
     driving_time |-> DBL_MAX,
     capa_error |-> 0,
     frame_error |-> 0,
     is_feasible |-> garbage_feasible,
     solution_quality |-> garbage_quality,
     start_times |-> <<>>,
     route_driving_times |-> <<>>,
     route_capa_errors |-> <<>>,
     route_frame_errors |-> <<>>,
     route_qualities |-> <<>>]

\* values an uninitialised double may be read as
GarbageQualities == {0, DBL_MAX}

RECURSIVE chromosomes_loop(_, _, _)
chromosomes_loop(route_chromosome, routes, route_id) ==
    IF route_id >= Size(routes) THEN route_chromosome
    ELSE chromosomes_loop(
             update_route_chromosome(route_chromosome, routes[route_id], route_id),
             routes, route_id + 1)

set_chromosomes(sol) ==
    [sol EXCEPT !.route_chromosome =
        chromosomes_loop(Vec(data_obj.nr_customer, 0), sol.solution_representation, 0)]

RECURSIVE set_load_levels_loop(_, _, _, _)
set_load_levels_loop(loads, loads_lvls, routes, route_id) ==
    IF route_id >= Size(routes) THEN [loads |-> loads, load_levels |-> loads_lvls]
    ELSE LET r == update_load_levels(loads, loads_lvls, routes[route_id],
                                     Len(routes[route_id]) - 1)
         IN  set_load_levels_loop(r.loads, r.load_levels, routes, route_id + 1)

set_load_levels(sol) ==
    LET r == set_load_levels_loop(Vec(data_obj.nr_customer, 0),
                 Vec(data_obj.nr_customer, 0), sol.solution_representation, 0)
    IN  [sol EXCEPT !.loads = r.loads, !.load_levels = r.load_levels]

RECURSIVE set_solution_time_loop(_, _, _, _, _, _, _)
\* the body of the loop of set_solution_time for one route, r being the
\* result of update_visit_times
set_solution_time_route(sol, total_time, start_times, route_driving_times, route_id, start_time, r) ==
    set_solution_time_loop(sol,
        total_time + r.route_driving_time,
        [start_times EXCEPT ![route_id] = start_time],
        [route_driving_times EXCEPT ![route_id] = r.route_driving_time],
        r.arrival_times, r.departure_times, route_id + 1)

set_solution_time_loop(sol, total_time, start_times, route_driving_times, arr_times, dep_times, route_id) ==
    IF route_id >= Size(sol.solution_representation)
    THEN [sol EXCEPT !.start_times = start_times,
                     !.driving_time = total_time,
                     !.route_driving_times = route_driving_times,
                     !.arrival_times = arr_times,
                     !.departure_times = dep_times]
    ELSE set_solution_time_route(sol, total_time, start_times, route_driving_times,
             route_id,
             get_starting_time(sol.solution_representation[route_id], sol.load_levels),
             update_visit_times(arr_times, dep_times,
                 get_starting_time(sol.solution_representation[route_id], sol.load_levels),
                 sol.solution_representation[route_id], sol.load_levels))

set_solution_time(sol) ==
    set_solution_time_loop(sol, 0,
        Vec(Size(sol.solution_representation), 0),
        Vec(Size(sol.solution_representation), 0),
        Vec(data_obj.nr_customer, 0), Vec(data_obj.nr_customer, 0), 0)

RECURSIVE SumVec(_, _)
SumVec(v, n) == IF n <= 0 THEN 0 ELSE v[n - 1] + SumVec(v, n - 1)

set_capa_error(sol) ==
    LET route_capa_errors ==
            [route_id \in 0..(data_obj.nr_vehicles - 1) |->
                IF route_id < Size(sol.solution_representation)
                THEN get_capa_error(sol.solution_representation[route_id], sol.loads)
                ELSE 0]
    IN  [sol EXCEPT !.capa_error = SumVec(route_capa_errors, data_obj.nr_vehicles),
                    !.route_capa_errors = route_capa_errors]

\* an evaluation that takes the error of the last route for the total
set_frame_error_last_route(sol) ==
    [sol EXCEPT !.frame_error =
                    get_frame_error(
                        sol.solution_representation[Size(sol.solution_representation) - 1],
                        sol.arrival_times),
                !.route_frame_errors =
                    [route_id \in 0..(Size(sol.solution_representation) - 1) |->
                        get_frame_error(sol.solution_representation[route_id],
                            sol.arrival_times)]]

set_frame_error(sol) ==
    LET route_frame_errors ==
            [route_id \in 0..(Size(sol.solution_representation) - 1) |->
                get_frame_error(sol.solution_representation[route_id], sol.arrival_times)]
    IN  [sol EXCEPT !.frame_error =
                        SumVec(route_frame_errors, Size(sol.solution_representation)),
                    !.route_frame_errors = route_frame_errors]

set_is_feasible(sol) ==
    [sol EXCEPT !.is_feasible = ~((sol.capa_error > 0) \/ (sol.frame_error > 0))]

set_quality(sol, capa_error_weight, frame_error_weight) ==
    LET route_qualities ==
            [route_id \in 0..(data_obj.nr_vehicles - 1) |->
                get_quality(sol.route_driving_times[route_id],
                            sol.route_capa_errors[route_id],
                            sol.route_frame_errors[route_id],
                            capa_error_weight, frame_error_weight)]
    IN  [sol EXCEPT !.solution_quality = SumVec(route_qualities, data_obj.nr_vehicles),
                    !.route_qualities = route_qualities]

evaluate_solution(sol, capa_error_weight, frame_error_weight) ==
    set_is_feasible(
        set_quality(
            set_frame_error(set_capa_error(set_solution_time(set_load_levels(
                set_chromosomes(sol))))),
            capa_error_weight, frame_error_weight))

\* Solution(data_obj, solution_rep, capa_error_weight, frame_error_weight)
NewSolution(solution_rep, capa_error_weight, frame_error_weight) ==
    evaluate_solution(
        [NullSolution(FALSE, 0) EXCEPT !.solution_representation = solution_rep],
        capa_error_weight, frame_error_weight)

\* evaluate_change, 2.3 and 2.4: the absolute and the route based KPIs
evaluate_change_write(s1, route_id, route_capa_error, vt, route_frame_error, route_quality) ==
    [sol |-> set_is_feasible(
         [s1 EXCEPT
             !.driving_time = s1.driving_time - s1.route_driving_times[route_id]
                              + vt.route_driving_time,
             !.frame_error = s1.frame_error - s1.route_frame_errors[route_id]
                             + route_frame_error,
             !.solution_quality = s1.solution_quality - s1.route_qualities[route_id]
                                  + route_quality,
             !.arrival_times = vt.arrival_times,
             !.departure_times = vt.departure_times,
             !.route_driving_times[route_id] = vt.route_driving_time,
             !.route_capa_errors[route_id] = route_capa_error,
             !.route_frame_errors[route_id] = route_frame_error,
             !.route_qualities[route_id] = route_quality]),
     thrown |-> FALSE]

\* evaluate_change, 2.2: vt is the result of update_visit_times
evaluate_change_times(s1, route_id, route_capa_error, vt, capa_error_weight, frame_error_weight) ==
    evaluate_change_write(s1, route_id, route_capa_error, vt,
        get_frame_error(s1.solution_representation[route_id], vt.arrival_times),
        get_quality(vt.route_driving_time, route_capa_error,
            get_frame_error(s1.solution_representation[route_id], vt.arrival_times),
            capa_error_weight, frame_error_weight))

\* evaluate_change, the check of the max capa infeasibility: s1 is the
\* solution with the loads and capa_error already written
evaluate_change_check(s1, route_id, route_capa_error, capa_error_weight, frame_error_weight) ==
    IF route_capa_error >= data_obj.add_pseudo_capacity
    THEN [sol |-> s1, thrown |-> TRUE]
    ELSE evaluate_change_times(s1, route_id, route_capa_error,
             update_visit_times(s1.arrival_times, s1.departure_times,
                 get_starting_time(s1.solution_representation[route_id], s1.load_levels),
                 s1.solution_representation[route_id], s1.load_levels),
             capa_error_weight, frame_error_weight)

\* evaluate_change, 1: ll is the result of update_load_levels
evaluate_change_capa(sol, route_id, ll, capa_error_weight, frame_error_weight) ==
    evaluate_change_check(
        [sol EXCEPT !.capa_error = sol.capa_error - sol.route_capa_errors[route_id]
                        + get_capa_error(sol.solution_representation[route_id], ll.loads),
                    !.loads = ll.loads,
                    !.load_levels = ll.load_levels],
        route_id,
        get_capa_error(sol.solution_representation[route_id], ll.loads),
        capa_error_weight, frame_error_weight)

\* The result carries thrown = TRUE when InfeasibilityException leaves the
\* function: the loads and capa_error are already written at that point
evaluate_change(sol, route_id, ins_pos, capa_error_weight, frame_error_weight) ==
    evaluate_change_capa(sol, route_id,
        update_load_levels(sol.loads, sol.load_levels,
            sol.solution_representation[route_id], ins_pos),
        capa_error_weight, frame_error_weight)

-----------------------------------------------------------------------------
(* Insertion probing (operator.cpp) *)

\* route.insert(...); solution_obj.route_chromosome[customer_id] = route_id
InsertCustomer(sol, route_id, customer_id, ins_pos) ==
    [sol EXCEPT !.solution_representation[route_id] = insert_at(@, ins_pos, customer_id),
                !.route_chromosome[customer_id] = route_id]

\* the outcome of a probe: e1 is the evaluation with the customer inserted,
\* e2 the evaluation after its removal
probe_result(e1, e2) ==
    IF e1.thrown
    THEN [sol |-> e2.sol, thrown |-> TRUE, cost |-> 0]
    ELSE [sol |-> e2.sol, thrown |-> e2.thrown, cost |-> e1.sol.solution_quality]

\* tools::remove_at(route, ins_pos); evaluate_change(route_id, ins_pos - 1)
probe_restore(e1, capa_error_weight, frame_error_weight, route_id, ins_pos) ==
    probe_result(e1,
        evaluate_change(
            [e1.sol EXCEPT !.solution_representation[route_id] = remove_at(@, ins_pos)],
            route_id, ins_pos - 1, capa_error_weight, frame_error_weight))

\* Insert, evaluate, remove, re-evaluate.  thrown = TRUE when the probe leaves
\* with InfeasibilityException (after the handler has removed the customer and
\* re-evaluated the route); cost is solution_quality with the customer inserted
evaluate_insertion_position(sol, capa_error_weight, frame_error_weight, route_id, customer_id, ins_pos) ==
    probe_restore(
        evaluate_change(InsertCustomer(sol, route_id, customer_id, ins_pos),
            route_id, ins_pos, capa_error_weight, frame_error_weight),
        capa_error_weight, frame_error_weight, route_id, ins_pos)

\* the insertion loop of evaluate_insertion_chain: the customers of
\* customer_ids go to the positions ins_pos, ins_pos + 1, ... of the route
RECURSIVE InsertChain(_, _, _, _)
InsertChain(sol, route_id, customer_ids, ins_pos) ==
    IF Len(customer_ids) = 0 THEN sol
    ELSE InsertChain(InsertCustomer(sol, route_id, Head(customer_ids), ins_pos),
             route_id, Tail(customer_ids), ins_pos + 1)

\* for (rem_pos = 0; rem_pos < add_pos; rem_pos++) remove_at(route, ins_pos)
RECURSIVE remove_chain(_, _, _)
remove_chain(route, ins_pos, add_pos) ==
    IF add_pos = 0 THEN route
    ELSE remove_chain(remove_at(route, ins_pos), ins_pos, add_pos - 1)

\* the removal of the chain and evaluate_change(route_id, ins_pos - 1), in the
\* handler and on the normal path alike
chain_restore(e1, capa_error_weight, frame_error_weight, route_id, add_pos, ins_pos) ==
    probe_result(e1,
        evaluate_change(
            [e1.sol EXCEPT !.solution_representation[route_id] =
                               remove_chain(@, ins_pos, add_pos)],
            route_id, ins_pos - 1, capa_error_weight, frame_error_weight))

\* Insert the chain, evaluate at the last inserted position, remove the
\* chain, re-evaluate; the result is read as for evaluate_insertion_position
evaluate_insertion_chain(sol, capa_error_weight, frame_error_weight, route_id, customer_ids, ins_pos) ==
    chain_restore(
        evaluate_change(InsertChain(sol, route_id, customer_ids, ins_pos),
            route_id, ins_pos + Len(customer_ids) - 1,
            capa_error_weight, frame_error_weight),
        capa_error_weight, frame_error_weight, route_id, Len(customer_ids), ins_pos)

\* evaluate_removal_position, steps 3 and 4: e1 is the evaluation without
\* the customer; the customer returns to rem_pos and the route is evaluated
\* again.  cost is solution_quality without the customer
removal_restore(e1, capa_error_weight, frame_error_weight, route_id, customer_id, rem_pos) ==
    IF e1.thrown THEN [sol |-> e1.sol, thrown |-> TRUE, cost |-> 0]
    ELSE probe_result(e1,
             evaluate_change(InsertCustomer(e1.sol, route_id, customer_id, rem_pos),
                 route_id, rem_pos, capa_error_weight, frame_error_weight))

\* Remove, evaluate, insert, re-evaluate.  No handler: an
\* InfeasibilityException of either evaluate_change leaves the function
evaluate_removal_position(sol, capa_error_weight, frame_error_weight, route_id, rem_pos) ==
    removal_restore(
        evaluate_change(
            [sol EXCEPT !.solution_representation[route_id] = remove_at(@, rem_pos)],
            route_id, rem_pos - 1, capa_error_weight, frame_error_weight),
        capa_error_weight, frame_error_weight, route_id,
        sol.solution_representation[route_id][rem_pos + 1], rem_pos)

\* a comparison that lets a later position of the same cost win
better_insertion_or_equal(best_insertion, tmp_cost, rid, pos) ==
    IF best_insertion.cost >= tmp_cost
    THEN [cost |-> tmp_cost, route_id |-> rid, pos |-> pos]
    ELSE best_insertion

\* if (min_cost > tmp_cost) ...
better_insertion(best_insertion, tmp_cost, rid, pos) ==
    IF best_insertion.cost > tmp_cost
    THEN [cost |-> tmp_cost, route_id |-> rid, pos |-> pos]
    ELSE best_insertion

\* The loops of get_best_insertion over rid and pos.  A throwing probe ends
\* the positions of its route (break).  tmp_cost subtracts solution_quality
\* as it is after the probe has restored the route
RECURSIVE best_insertion_loop(_, _, _, _, _, _, _, _)
RECURSIVE best_insertion_next(_, _, _, _, _, _, _, _)
best_insertion_next(customer_id, p, capa_error_weight, frame_error_weight, rid, stop_id, pos, best_insertion) ==
    IF p.thrown
    THEN best_insertion_loop(customer_id, p.sol, capa_error_weight,
             frame_error_weight, rid + 1, stop_id, 0, best_insertion)
    ELSE best_insertion_loop(customer_id, p.sol, capa_error_weight,
             frame_error_weight, rid, stop_id, pos + 1,
             better_insertion(best_insertion, p.cost - p.sol.solution_quality, rid, pos))

best_insertion_loop(customer_id, sol, capa_error_weight, frame_error_weight, rid, stop_id, pos, best_insertion) ==
    IF rid >= stop_id THEN [sol |-> sol, best |-> best_insertion]
    ELSE IF pos > Len(sol.solution_representation[rid])
    THEN best_insertion_loop(customer_id, sol, capa_error_weight, frame_error_weight,
             rid + 1, stop_id, 0, best_insertion)
    ELSE best_insertion_next(customer_id,
             evaluate_insertion_position(sol, capa_error_weight, frame_error_weight,
                 rid, customer_id, pos),
             capa_error_weight, frame_error_weight, rid, stop_id, pos, best_insertion)

\* route_id = -1 searches all routes.  The tuple (DBL_MAX, 0, 0) is returned
\* unchanged when every probe throws
get_best_insertion(customer_id, sol, capa_error_weight, frame_error_weight, route_id) ==
    best_insertion_loop(customer_id, sol, capa_error_weight, frame_error_weight,
        IF route_id >= 0 THEN route_id ELSE 0,
        IF route_id >= 0 THEN route_id + 1 ELSE Size(sol.solution_representation),
        0, [cost |-> DBL_MAX, route_id |-> 0, pos |-> 0])

-----------------------------------------------------------------------------
(* Repair operators.  Each returns the solution it leaves behind and whether *)
(* an InfeasibilityException left the operator.                              *)

\* the insertion both greedy operators perform with the result of
\* get_best_insertion: insert at (route_id, pos) and evaluate_change
InsertBest(bi, customer_id, capa_error_weight, frame_error_weight) ==
    evaluate_change(
        InsertCustomer(bi.sol, bi.best.route_id, customer_id, bi.best.pos),
        bi.best.route_id, bi.best.pos, capa_error_weight, frame_error_weight)

RECURSIVE BasicGreedyInsertionOperator(_, _, _, _)
\* the rest of the loop after the insertion e of the first customer
basic_greedy_next(e, capa_error_weight, frame_error_weight, removed_customers) ==
    IF e.thrown THEN e
    ELSE BasicGreedyInsertionOperator(e.sol, capa_error_weight,
             frame_error_weight, Tail(removed_customers))

BasicGreedyInsertionOperator(sol, capa_error_weight, frame_error_weight, removed_customers) ==
    IF removed_customers = <<>> THEN [sol |-> sol, thrown |-> FALSE]
    ELSE basic_greedy_next(
             InsertBest(
                 get_best_insertion(Head(removed_customers), sol, capa_error_weight,
                     frame_error_weight, -1),
                 Head(removed_customers), capa_error_weight, frame_error_weight),
             capa_error_weight, frame_error_weight, removed_customers)

RECURSIVE RandomGreedyInsertionOperator(_, _, _, _, _, _)
\* the rest of the loop after the insertion e of the customer at customer_pos
random_greedy_next(e, capa_error_weight, frame_error_weight, removed_customers, customer_pos, draws, k) ==
    IF e.thrown THEN e
    ELSE RandomGreedyInsertionOperator(e.sol, capa_error_weight, frame_error_weight,
             remove_at(removed_customers, customer_pos), draws, k + 1)

\* one iteration of the loop for the customer at customer_pos
random_greedy_insert(sol, capa_error_weight, frame_error_weight, removed_customers, customer_pos, draws, k) ==
    random_greedy_next(
        InsertBest(
            get_best_insertion(removed_customers[customer_pos + 1], sol,
                capa_error_weight, frame_error_weight, -1),
            removed_customers[customer_pos + 1], capa_error_weight, frame_error_weight),
        capa_error_weight, frame_error_weight, removed_customers, customer_pos, draws, k)

\* draws[k] is the UNI value of the k-th call of rand_number
RandomGreedyInsertionOperator(sol, capa_error_weight, frame_error_weight, removed_customers, draws, k) ==
    IF Len(removed_customers) = 0 THEN [sol |-> sol, thrown |-> FALSE]
    ELSE random_greedy_insert(sol, capa_error_weight, frame_error_weight,
             removed_customers,
             rand_number(Len(removed_customers) - 1, 0, draws[k]), draws, k)

\* std::reverse
reverse(v) == [k \in 1..Len(v) |-> v[Len(v) + 1 - k]]

\* the beta the functor "beta_hybrid" is constructed with
beta_hybrid_beta == 3

\* a test that sends a list of exactly beta customers to the greedy loop
beta_block_tried_below(removed_customers, beta) ==
    Len(removed_customers) < beta /\ Len(removed_customers) > 0

\* 1) the test of the list size against beta
beta_block_tried(removed_customers, beta) ==
    Len(removed_customers) <= beta /\ Len(removed_customers) > 0

\* 1.1) the list after the reversal with probability 0.5; u_reverse is the UNI
\* value of rand_number(1)
beta_list(removed_customers, beta, u_reverse) ==
    IF beta_block_tried(removed_customers, beta) /\ rand_number(1, 0, u_reverse) = 0
    THEN reverse(removed_customers)
    ELSE removed_customers

\* 1.2) the loops over route_id and ins_pos.  A throwing probe ends the
\* positions of its route (break)
RECURSIVE beta_scan_loop(_, _, _, _, _, _, _)
beta_scan_next(p, capa_error_weight, frame_error_weight, customers, route_id, ins_pos, best_insertion) ==
    IF p.thrown
    THEN beta_scan_loop(p.sol, capa_error_weight, frame_error_weight, customers,
             route_id + 1, 0, best_insertion)
    ELSE beta_scan_loop(p.sol, capa_error_weight, frame_error_weight, customers,
             route_id, ins_pos + 1,
             better_insertion(best_insertion, p.cost - p.sol.solution_quality,
                 route_id, ins_pos))

beta_scan_loop(sol, capa_error_weight, frame_error_weight, customers, route_id, ins_pos, best_insertion) ==
    IF route_id >= Size(sol.solution_representation)
    THEN [sol |-> sol, best |-> best_insertion]
    ELSE IF ins_pos > Len(sol.solution_representation[route_id])
    THEN beta_scan_loop(sol, capa_error_weight, frame_error_weight, customers,
             route_id + 1, 0, best_insertion)
    ELSE beta_scan_next(
             evaluate_insertion_chain(sol, capa_error_weight, frame_error_weight,
                 route_id, customers, ins_pos),
             capa_error_weight, frame_error_weight, customers, route_id, ins_pos,
             best_insertion)

\* 1) the solution and best_insertion after the block search, or as they
\* are when the search is skipped
beta_scan(sol, capa_error_weight, frame_error_weight, customers, block_tried) ==
    IF block_tried
    THEN beta_scan_loop(sol, capa_error_weight, frame_error_weight, customers, 0, 0,
             [cost |-> DBL_MAX, route_id |-> -1, pos |-> -1])
    ELSE [sol |-> sol, best |-> [cost |-> DBL_MAX, route_id |-> -1, pos |-> -1]]

\* 1.3) the insertion of the block and evaluate_change at its last position
beta_insert(s, capa_error_weight, frame_error_weight, customers) ==
    evaluate_change(
        InsertChain(s.sol, s.best.route_id, customers, s.best.pos),
        s.best.route_id, s.best.pos + Len(customers) - 1,
        capa_error_weight, frame_error_weight)

\* 1.3) and 2): the block goes in when a position was found; otherwise, or
\* for a list longer than beta, the loop of randomized greedy insertions
\* runs, which is the loop of RandomGreedyInsertionOperator.  draws[k] is the
\* UNI value of the k-th rand_number of that loop
beta_finish(s, capa_error_weight, frame_error_weight, customers, beta, draws) ==
    IF s.best.route_id >= 0
    THEN beta_insert(s, capa_error_weight, frame_error_weight, customers)
    ELSE IF s.best.route_id < 0 \/ Len(customers) > beta
    THEN RandomGreedyInsertionOperator(s.sol, capa_error_weight, frame_error_weight,
             customers, draws, 1)
    ELSE [sol |-> s.sol, thrown |-> FALSE]

BetaHybridInsertionOperator(sol, beta, capa_error_weight, frame_error_weight, removed_customers, u_reverse, draws) ==
    beta_finish(
        beta_scan(sol, capa_error_weight, frame_error_weight,
            beta_list(removed_customers, beta, u_reverse),
            beta_block_tried(removed_customers, beta)),
        capa_error_weight, frame_error_weight,
        beta_list(removed_customers, beta, u_reverse), beta, draws)

\* The state of DeepGreedyInsertionOperator.  The vector removed_customers
\* is its storage mem and its size: erase leaves the elements behind size
\* in the storage.  best_insertions[customer_id_pos + 1][route_id + 1]
deep_greedy_state(sol, removed_customers) ==
    [sol |-> sol,
     mem |-> removed_customers,
     size |-> Len(removed_customers),
     best_insertions |->
         [c \in 1..Len(removed_customers) |->
             [r \in 1..data_obj.nr_vehicles |-> [cost |-> 0, route_id |-> 0, pos |-> 0]]],
     best_insertion |-> [cost |-> DBL_MAX, route_id |-> 0, pos |-> 0],
     best_customer_id_pos |-> 0]

\* 1) the body of the two loops for the result r of get_best_insertion
deep_greedy_record(d, r, customer_id_pos, route_id) ==
    [d EXCEPT
        !.sol = r.sol,
        !.best_insertions[customer_id_pos + 1][route_id + 1] = r.best,
        !.best_insertion = IF d.best_insertion.cost > r.best.cost THEN r.best ELSE @,
        !.best_customer_id_pos =
            IF d.best_insertion.cost > r.best.cost THEN customer_id_pos ELSE @]

\* 1) best info on customer and route basis
RECURSIVE deep_greedy_scan(_, _, _, _, _)
deep_greedy_scan(d, capa_error_weight, frame_error_weight, customer_id_pos, route_id) ==
    IF customer_id_pos >= d.size THEN d
    ELSE IF route_id >= data_obj.nr_vehicles
    THEN deep_greedy_scan(d, capa_error_weight, frame_error_weight,
             customer_id_pos + 1, 0)
    ELSE deep_greedy_scan(
             deep_greedy_record(d,
                 get_best_insertion(d.mem[customer_id_pos + 1], d.sol,
                     capa_error_weight, frame_error_weight, route_id),
                 customer_id_pos, route_id),
             capa_error_weight, frame_error_weight, customer_id_pos, route_id + 1)

\* 2.2) tools::remove_at on removed_customers and on best_insertions at
\* position n.  For n >= size the position lies behind end(): erase then
\* moves no element and shortens the vector by its last element
deep_greedy_remove_at(d, n) ==
    [d EXCEPT
        !.mem = [k \in 1..Len(d.mem) |->
                    IF k > n /\ k < d.size THEN d.mem[k + 1] ELSE d.mem[k]],
        !.best_insertions = IF n < d.size THEN remove_at(@, n)
                            ELSE SubSeq(@, 1, d.size - 1),
        !.size = d.size - 1]

\* 2.3) the body of the loop for the result r of get_best_insertion
deep_greedy_store(d, r, customer_id_pos, route_id) ==
    [d EXCEPT !.sol = r.sol,
              !.best_insertions[customer_id_pos + 1][route_id + 1] = r.best]

\* 2.3) reevaluate the values of the changed route
RECURSIVE deep_greedy_reevaluate(_, _, _, _, _)
deep_greedy_reevaluate(d, capa_error_weight, frame_error_weight, customer_id_pos, best_route_id) ==
    IF customer_id_pos >= d.size THEN d
    ELSE deep_greedy_reevaluate(
             deep_greedy_store(d,
                 get_best_insertion(d.mem[customer_id_pos + 1], d.sol,
                     capa_error_weight, frame_error_weight, best_route_id),
                 customer_id_pos, best_route_id),
             capa_error_weight, frame_error_weight, customer_id_pos + 1, best_route_id)

\* 2.4) the next best insertion customer and position.  best_customer_id_pos
\* keeps its value when no entry is below DBL_MAX
RECURSIVE deep_greedy_pick(_, _, _)
deep_greedy_pick(d, customer_id_pos, route_id) ==
    IF customer_id_pos >= d.size THEN d
    ELSE IF route_id >= data_obj.nr_vehicles
    THEN deep_greedy_pick(d, customer_id_pos + 1, 0)
    ELSE deep_greedy_pick(
             IF d.best_insertion.cost
                    > d.best_insertions[customer_id_pos + 1][route_id + 1].cost
             THEN [d EXCEPT
                      !.best_insertion =
                          d.best_insertions[customer_id_pos + 1][route_id + 1],
                      !.best_customer_id_pos = customer_id_pos]
             ELSE d,
             customer_id_pos, route_id + 1)

\* 2.2) to 2.4) after the insertion: e is the solution evaluate_change left
deep_greedy_prepare(d, e, capa_error_weight, frame_error_weight) ==
    deep_greedy_pick(
        [deep_greedy_reevaluate(
             deep_greedy_remove_at([d EXCEPT !.sol = e.sol], d.best_customer_id_pos),
             capa_error_weight, frame_error_weight, 0, d.best_insertion.route_id)
         EXCEPT !.best_insertion = [cost |-> DBL_MAX, route_id |-> 0, pos |-> 0]],
        0, 0)

RECURSIVE deep_greedy_loop(_, _, _, _)
\* the rest of an iteration of the while loop after evaluate_change
deep_greedy_next(d, e, capa_error_weight, frame_error_weight, unchecked) ==
    IF e.thrown THEN [sol |-> e.sol, thrown |-> TRUE, crashed |-> FALSE]
    ELSE deep_greedy_loop(
             deep_greedy_prepare(d, e, capa_error_weight, frame_error_weight),
             capa_error_weight, frame_error_weight, unchecked)

\* 2) the while loop.  removed_customers[best_customer_id_pos] with
\* best_customer_id_pos >= size reads behind the end of the vector: a build
\* that checks the access ends the process (crashed); an unchecked build
\* reads the storage, which still holds the elements erased before
deep_greedy_loop(d, capa_error_weight, frame_error_weight, unchecked) ==
    IF d.size = 0 THEN [sol |-> d.sol, thrown |-> FALSE, crashed |-> FALSE]
    ELSE IF d.best_customer_id_pos >= d.size /\ ~unchecked
    THEN [sol |-> d.sol, thrown |-> FALSE, crashed |-> TRUE]
    ELSE deep_greedy_next(d,
             evaluate_change(
                 InsertCustomer(d.sol, d.best_insertion.route_id,
                     d.mem[d.best_customer_id_pos + 1], d.best_insertion.pos),
                 d.best_insertion.route_id, d.best_insertion.pos,
                 capa_error_weight, frame_error_weight),
             capa_error_weight, frame_error_weight, unchecked)

DeepGreedyInsertionOperator(sol, capa_error_weight, frame_error_weight, removed_customers, unchecked) ==
    deep_greedy_loop(
        deep_greedy_scan(deep_greedy_state(sol, removed_customers),
            capa_error_weight, frame_error_weight, 0, 0),
        capa_error_weight, frame_error_weight, unchecked)

-----------------------------------------------------------------------------
(* Destroy operators.  Each returns the solution it leaves behind and the    *)
(* removed customers.  mean_removal is a fixed-point number with MeanScale   *)
(* units per 1.0.                                                            *)

MeanScale == 1000

\* the inner loop of RandomDestroyOperator over one route; draws[k + 1] is the
\* UNI value of the call of rand_number for the first customer of the route
RECURSIVE split_route(_, _, _, _)
split_route(route, draws, k, mean_removal) ==
    IF route = <<>> THEN [new_route |-> <<>>, removed |-> <<>>]
    ELSE LET rest == split_route(Tail(route), draws, k + 1, mean_removal)
             rnd_int == rand_number(data_obj.nr_customer, 0, draws[k + 1])
         IN  IF rnd_int * MeanScale > mean_removal
             THEN [new_route |-> <<Head(route)>> \o rest.new_route,
                   removed |-> rest.removed]
             ELSE [new_route |-> rest.new_route,
                   removed |-> <<Head(route)>> \o rest.removed]

RECURSIVE random_destroy_loop(_, _, _, _, _, _)
random_destroy_loop(routes, route_id, draws, k, mean_removal, acc) ==
    IF route_id >= Size(routes) THEN acc
    ELSE LET s == split_route(routes[route_id], draws, k, mean_removal)
         IN  random_destroy_loop(routes, route_id + 1, draws,
                 k + Len(routes[route_id]), mean_removal,
                 [routes |-> [acc.routes EXCEPT ![route_id] = s.new_route],
                  removed |-> acc.removed \o s.removed])

RandomDestroyOperator(sol, capa_error_weight, frame_error_weight, mean_removal, draws) ==
    LET r == random_destroy_loop(sol.solution_representation, 0, draws, 0, mean_removal,
                 [routes |-> sol.solution_representation, removed |-> <<>>])
    IN  [sol |-> evaluate_solution([sol EXCEPT !.solution_representation = r.routes],
                     capa_error_weight, frame_error_weight),
         removed |-> r.removed]

RandomRouteDestroyOperator(sol, capa_error_weight, frame_error_weight, u) ==
    LET route_id == rand_number(data_obj.nr_vehicles - 1, 0, u)
    IN  [sol |-> evaluate_solution(
                     [sol EXCEPT !.solution_representation[route_id] = <<>>],
                     capa_error_weight, frame_error_weight),
         removed |-> sol.solution_representation[route_id]]

\* tools::get_ranks: dense ranks starting at 1, equal values share a rank
get_ranks(v) ==
    [i \in DOMAIN v |-> 1 + Cardinality({v[j] : j \in {k \in DOMAIN v : v[k] < v[i]}})]

\* an order of the indices that puts the higher index first among equal values
sort_indices_ties_reversed(v) ==
    LET before(i) == Cardinality({j \in DOMAIN v :
                         v[j] < v[i] \/ (v[j] = v[i] /\ j > i)})
    IN  [k \in 1..Size(v) |-> CHOOSE i \in DOMAIN v : before(i) = k - 1]

\* tools::sort_indices: the indices ordered by (value, index)
sort_indices(v) ==
    LET before(i) == Cardinality({j \in DOMAIN v :
                         v[j] < v[i] \/ (v[j] = v[i] /\ j < i)})
    IN  [k \in 1..Size(v) |-> CHOOSE i \in DOMAIN v : before(i) = k - 1]

\* the removal loop of BiggestDemandDestroyOperator (route_chromosome lookup,
\* get_customer_pos, remove_at); failed = TRUE stands for the logic_error of
\* get_customer_pos
RECURSIVE remove_customers(_, _, _)
remove_customers(sol, removed_customers, k) ==
    IF k > Len(removed_customers) THEN [sol |-> sol, failed |-> FALSE]
    ELSE LET customer_id == removed_customers[k]
             route_id == sol.route_chromosome[customer_id]
             customer_pos == get_customer_pos(sol.solution_representation[route_id],
                                 customer_id)
         IN  IF customer_pos < 0 THEN [sol |-> sol, failed |-> TRUE]
             ELSE remove_customers(
                      [sol EXCEPT !.solution_representation[route_id] =
                                      remove_at(@, customer_pos)],
                      removed_customers, k + 1)

\* normal_draw is the value of rand_number_normal, which seeds a fresh
\* mt19937 from std::random_device on every call.  rnd_factor is random_noise
\* = 0, so bias = pow(UNI, 0) = 1 and the skewed ranks are the demand ranks
BiggestDemandDestroyOperator(sol, capa_error_weight, frame_error_weight, normal_draw) ==
    LET rnd_int == Max(0, Min(data_obj.nr_customer - 1, normal_draw))
        skewed_demand_ranks == get_ranks(data_obj.demand)
        sorted_indices == sort_indices(skewed_demand_ranks)
        removed_customers == SubSeq(sorted_indices,
                                 Len(sorted_indices) - rnd_int + 1, Len(sorted_indices))
        r == remove_customers(sol, removed_customers, 1)
    IN  [sol |-> evaluate_solution(r.sol, capa_error_weight, frame_error_weight),
         removed |-> removed_customers,
         failed |-> r.failed]

\* the loop of WorstTravelTimeDestroyOperator over one route: the arc to the
\* customer at pos is written to its entry and added to the entry of the
\* previous customer when prev_customer_id > 0; the arc back to the depot is
\* added to the last customer
RECURSIVE travel_times_route(_, _, _, _, _)
travel_times_route(sol, travel_times, route, pos, prev_customer_id) ==
    IF pos > Len(route)
    THEN [travel_times EXCEPT ![prev_customer_id] =
             @ + data_obj.time_cube[0][prev_customer_id + 1][0]]
    ELSE travel_times_route(sol,
             [c \in DOMAIN travel_times |->
                 IF c = route[pos]
                 THEN data_obj.time_cube[sol.load_levels[route[pos]]]
                          [prev_customer_id + 1][route[pos] + 1]
                 ELSE IF c = prev_customer_id /\ prev_customer_id > 0
                 THEN travel_times[c]
                      + data_obj.time_cube[sol.load_levels[route[pos]]]
                            [prev_customer_id + 1][route[pos] + 1]
                 ELSE travel_times[c]],
             route, pos + 1, route[pos])

\* step 1 of WorstTravelTimeDestroyOperator: the routes one after the other
RECURSIVE travel_times_loop(_, _, _)
travel_times_loop(sol, travel_times, route_id) ==
    IF route_id >= Size(sol.solution_representation) THEN travel_times
    ELSE travel_times_loop(sol,
             IF Len(sol.solution_representation[route_id]) > 0
             THEN travel_times_route(sol, travel_times,
                      sol.solution_representation[route_id], 1, -1)
             ELSE travel_times,
             route_id + 1)

\* vector<double> travel_times(data.nr_customer) and step 1
worst_travel_times(sol) ==
    travel_times_loop(sol, Vec(data_obj.nr_customer, 0), 0)

\* the customers at the end of the order of the ranks: steps 2 and 3 with
\* rnd_factor = 0, so that the skewed ranks are the ranks
worst_travel_time_removed(sol, rnd_int) ==
    SubSeq(sort_indices(get_ranks(worst_travel_times(sol))),
        data_obj.nr_customer - rnd_int + 1, data_obj.nr_customer)

\* normal_draw is the value of rand_number_normal; travel_times is returned
\* with the result for the ranking to be seen
WorstTravelTimeDestroyOperator(sol, capa_error_weight, frame_error_weight, normal_draw) ==
    [sol |-> evaluate_solution(
                 remove_customers(sol,
                     worst_travel_time_removed(sol,
                         Max(0, Min(data_obj.nr_customer - 1, normal_draw))), 1).sol,
                 capa_error_weight, frame_error_weight),
     removed |-> worst_travel_time_removed(sol,
                     Max(0, Min(data_obj.nr_customer - 1, normal_draw))),
     failed |-> remove_customers(sol,
                    worst_travel_time_removed(sol,
                        Max(0, Min(data_obj.nr_customer - 1, normal_draw))), 1).failed,
     travel_times |-> worst_travel_times(sol)]

\* the comparison of step 1 of WorstRemovalDestroyOperator for the removal
\* gain tmp_cost of (route_id, pos), found while candidate customer_id_pos is
\* scanned; bias = pow(UNI, rnd_factor) = 1
worst_scan_compare(st, tmp_cost, customer_id_pos, route_id, pos) ==
    IF st.max_cost_diff < tmp_cost
    THEN IF st.overall_max_diff < tmp_cost
         THEN [st EXCEPT !.max_cost_diff = tmp_cost,
                         !.best_removals[customer_id_pos + 1][route_id] =
                             [cost |-> tmp_cost, pos |-> pos],
                         !.overall_max_diff = tmp_cost,
                         !.best_customer_id_pos = customer_id_pos,
                         !.best_route_id = route_id,
                         !.best_rem_pos = pos]
         ELSE [st EXCEPT !.max_cost_diff = tmp_cost,
                         !.best_removals[customer_id_pos + 1][route_id] =
                             [cost |-> tmp_cost, pos |-> pos]]
    ELSE st

\* p is the result of evaluate_removal_position; an exception leaves the
\* operator
worst_scan_probe(st, p, customer_id_pos, route_id, pos) ==
    IF p.thrown THEN [st EXCEPT !.sol = p.sol, !.thrown = TRUE]
    ELSE worst_scan_compare([st EXCEPT !.sol = p.sol],
             p.sol.solution_quality - p.cost, customer_id_pos, route_id, pos)

\* step 1: for every candidate, every route and every position of the route
RECURSIVE worst_scan(_, _, _, _, _, _)
worst_scan(st, capa_error_weight, frame_error_weight, customer_id_pos, route_id, pos) ==
    IF st.thrown \/ customer_id_pos >= Len(st.candidates) THEN st
    ELSE IF route_id >= data_obj.nr_vehicles
    THEN worst_scan([st EXCEPT !.max_cost_diff = -DBL_MAX],
             capa_error_weight, frame_error_weight, customer_id_pos + 1, 0, 0)
    ELSE IF pos >= Len(st.sol.solution_representation[route_id])
    THEN worst_scan([st EXCEPT !.max_cost_diff = -DBL_MAX],
             capa_error_weight, frame_error_weight, customer_id_pos, route_id + 1, 0)
    ELSE worst_scan(
             worst_scan_probe(st,
                 evaluate_removal_position(st.sol, capa_error_weight,
                     frame_error_weight, route_id, pos),
                 customer_id_pos, route_id, pos),
             capa_error_weight, frame_error_weight, customer_id_pos, route_id, pos + 1)

\* steps 2.1 and 2.2: the removal at (best_route_id, best_rem_pos), recorded
\* as the removal of candidates[best_customer_id_pos]; e is the result of
\* evaluate_change
worst_removed(st, e) ==
    [st EXCEPT !.sol = e.sol,
               !.thrown = e.thrown,
               !.removed_customers = Append(@, st.candidates[st.best_customer_id_pos + 1]),
               !.candidates = remove_at(@, st.best_customer_id_pos),
               !.best_removals = remove_at(@, st.best_customer_id_pos)]

worst_remove(st, capa_error_weight, frame_error_weight) ==
    worst_removed(st,
        evaluate_change(
            [st.sol EXCEPT !.solution_representation[st.best_route_id] =
                               remove_at(@, st.best_rem_pos)],
            st.best_route_id, st.best_rem_pos - 1, capa_error_weight, frame_error_weight))

\* step 2.3 for one position: p is the result of evaluate_removal_position,
\* acc holds max_diff and best_pos
worst_rescan_probe(st, acc, p, pos) ==
    IF p.thrown
    THEN [st |-> [st EXCEPT !.sol = p.sol, !.thrown = TRUE], acc |-> acc]
    ELSE [st |-> [st EXCEPT !.sol = p.sol],
          acc |-> IF acc.cost < p.sol.solution_quality - p.cost
                  THEN [cost |-> p.sol.solution_quality - p.cost, pos |-> pos]
                  ELSE acc]

\* step 2.3 for one candidate: the positions of the route best_route_id
RECURSIVE worst_rescan_route(_, _, _, _)
worst_rescan_route(r, capa_error_weight, frame_error_weight, pos) ==
    IF r.st.thrown \/ pos >= Len(r.st.sol.solution_representation[r.st.best_route_id])
    THEN r
    ELSE worst_rescan_route(
             worst_rescan_probe(r.st, r.acc,
                 evaluate_removal_position(r.st.sol, capa_error_weight,
                     frame_error_weight, r.st.best_route_id, pos),
                 pos),
             capa_error_weight, frame_error_weight, pos + 1)

\* the result of step 2.3 for one candidate written to best_removals
worst_rescanned(r, customer_id_pos) ==
    [r.st EXCEPT !.best_removals[customer_id_pos + 1][r.st.best_route_id] = r.acc]

\* step 2.3: every remaining candidate gets the result for best_route_id
RECURSIVE worst_rescan(_, _, _, _)
worst_rescan(st, capa_error_weight, frame_error_weight, customer_id_pos) ==
    IF st.thrown \/ customer_id_pos >= Len(st.candidates) THEN st
    ELSE worst_rescan(
             worst_rescanned(
                 worst_rescan_route([st |-> st, acc |-> [cost |-> -DBL_MAX, pos |-> 0]],
                     capa_error_weight, frame_error_weight, 0),
                 customer_id_pos),
             capa_error_weight, frame_error_weight, customer_id_pos + 1)

\* step 2.4: the next removal, searched among the first
\* removed_customers.size() entries of best_removals
RECURSIVE worst_next(_, _, _)
worst_next(st, customer_id_pos, route_id) ==
    IF customer_id_pos >= Len(st.removed_customers) THEN st
    ELSE IF route_id >= data_obj.nr_vehicles THEN worst_next(st, customer_id_pos + 1, 0)
    ELSE worst_next(
             IF st.overall_max_diff < st.best_removals[customer_id_pos + 1][route_id].cost
             THEN [st EXCEPT
                      !.overall_max_diff =
                          st.best_removals[customer_id_pos + 1][route_id].cost,
                      !.best_customer_id_pos = customer_id_pos,
                      !.best_route_id = route_id,
                      !.best_rem_pos = st.best_removals[customer_id_pos + 1][route_id].pos]
             ELSE st,
             customer_id_pos, route_id + 1)

\* step 2: while (unsigned(nr_removed_customers) < removed_customers.size())
RECURSIVE worst_removal_loop(_, _, _)
worst_removal_loop(st, capa_error_weight, frame_error_weight) ==
    IF st.thrown \/ ~(st.nr_removed_customers < Len(st.removed_customers)) THEN st
    ELSE worst_removal_loop(
             worst_next(
                 [worst_rescan(worst_remove(st, capa_error_weight, frame_error_weight),
                      capa_error_weight, frame_error_weight, 0)
                  EXCEPT !.overall_max_diff = -DBL_MAX],
                 0, 0),
             capa_error_weight, frame_error_weight)

\* step 0: the locals of WorstRemovalDestroyOperator before the scan
worst_removal_setup(sol, normal_draw) ==
    [sol |-> sol, thrown |-> FALSE,
     nr_removed_customers |-> Max(0, Min(data_obj.nr_customer - 1, normal_draw)),
     removed_customers |-> <<>>,
     candidates |-> [k \in 1..data_obj.nr_customer |-> k - 1],
     best_removals |-> [k \in 1..data_obj.nr_customer |->
                           [route_id \in RouteIds |-> [cost |-> 0, pos |-> 0]]],
     max_cost_diff |-> -DBL_MAX,
     overall_max_diff |-> -DBL_MAX,
     best_customer_id_pos |-> 0, best_route_id |-> 0, best_rem_pos |-> 0]

\* the locals when the operator returns
worst_removal_run(sol, capa_error_weight, frame_error_weight, normal_draw) ==
    worst_removal_loop(
        worst_scan(worst_removal_setup(sol, normal_draw),
            capa_error_weight, frame_error_weight, 0, 0, 0),
        capa_error_weight, frame_error_weight)

\* normal_draw is the value of rand_number_normal
WorstRemovalDestroyOperator(sol, capa_error_weight, frame_error_weight, normal_draw) ==
    [sol |-> worst_removal_run(sol, capa_error_weight, frame_error_weight,
                 normal_draw).sol,
     removed |-> worst_removal_run(sol, capa_error_weight, frame_error_weight,
                     normal_draw).removed_customers,
     failed |-> worst_removal_run(sol, capa_error_weight, frame_error_weight,
                    normal_draw).thrown]

-----------------------------------------------------------------------------
(* NodePairDestroyOperator *)

\* the value a sum of doubles overflows to
DBL_INF == 2 * DBL_MAX

\* a + b in doubles for a driving time, DBL_MAX or infinity: DBL_MAX absorbs
\* a driving time, and DBL_MAX + DBL_MAX overflows
dbl_add(a, b) ==
    IF a >= DBL_INF \/ b >= DBL_INF THEN DBL_INF
    ELSE IF a >= DBL_MAX /\ b >= DBL_MAX THEN DBL_INF
    ELSE IF a >= DBL_MAX \/ b >= DBL_MAX THEN DBL_MAX
    ELSE a + b

\* historic_perf[customer_id] += potential
perf_add(historic_perf, customer_id, potential) ==
    [historic_perf EXCEPT ![customer_id] = dbl_add(@, potential)]

\* step 1 of NodePairDestroyOperator over one route: the potential of the arc
\* to the customer at pos is added to its entry and to the entry of the
\* previous customer; the arc back to the depot is added to the last customer
RECURSIVE historic_perf_route(_, _, _, _, _)
historic_perf_route(potential, historic_perf, route, pos, prev_customer_id) ==
    IF pos > Len(route)
    THEN perf_add(historic_perf, prev_customer_id, potential[prev_customer_id + 1][0])
    ELSE historic_perf_route(potential,
             IF prev_customer_id > -1
             THEN perf_add(
                      perf_add(historic_perf, route[pos],
                          potential[prev_customer_id + 1][route[pos] + 1]),
                      prev_customer_id,
                      potential[prev_customer_id + 1][route[pos] + 1])
             ELSE perf_add(historic_perf, route[pos],
                      potential[prev_customer_id + 1][route[pos] + 1]),
             route, pos + 1, route[pos])

\* step 1: the routes one after the other
RECURSIVE historic_perf_loop(_, _, _, _)
historic_perf_loop(sol, potential, historic_perf, route_id) ==
    IF route_id >= Size(sol.solution_representation) THEN historic_perf
    ELSE historic_perf_loop(sol, potential,
             IF Len(sol.solution_representation[route_id]) > 0
             THEN historic_perf_route(potential, historic_perf,
                      sol.solution_representation[route_id], 1, -1)
             ELSE historic_perf,
             route_id + 1)

\* vector<double> historic_perf(data.nr_customer, 0) and step 1
node_pair_historic_perf(sol, potential) ==
    historic_perf_loop(sol, potential, Vec(data_obj.nr_customer, 0), 0)

\* steps 2.1 to 2.4 with rnd_factor = 0: the customers at the end of the
\* order of the ranks
node_pair_removed(sol, potential, rnd_int) ==
    SubSeq(sort_indices(get_ranks(node_pair_historic_perf(sol, potential))),
        data_obj.nr_customer - rnd_int + 1, data_obj.nr_customer)

\* normal_draw is the value of rand_number_normal; potential is the
\* node_pair_potential_matrix of the ALNS object
NodePairDestroyOperator(sol, potential, capa_error_weight, frame_error_weight, normal_draw) ==
    [sol |-> evaluate_solution(
                 remove_customers(sol,
                     node_pair_removed(sol, potential,
                         Max(0, Min(data_obj.nr_customer - 1, normal_draw))), 1).sol,
                 capa_error_weight, frame_error_weight),
     removed |-> node_pair_removed(sol, potential,
                     Max(0, Min(data_obj.nr_customer - 1, normal_draw))),
     failed |-> remove_customers(sol,
                    node_pair_removed(sol, potential,
                        Max(0, Min(data_obj.nr_customer - 1, normal_draw))), 1).failed]

-----------------------------------------------------------------------------
(* ShawDestroyOperator.  The normalised matrices of ALNSData hold fractions; *)
(* the model keeps every relatedness multiplied by ShawScale, the product of *)
(* the four bases of normalisation, so that the scores are integers.         *)

AbsDiff(a, b) == IF a >= b THEN a - b ELSE b - a

\* the level-0 travel times stand for the distances (README.md:312)
distance_matrix == data_obj.time_cube[0]

\* general_preprocessing: min_d and max_d over the whole distance matrix
min_d == CHOOSE x \in {distance_matrix[i][j] : i, j \in DOMAIN distance_matrix} : \A y \in {distance_matrix[i][j] : i, j \in DOMAIN distance_matrix} : x <= y
max_d == CHOOSE x \in {distance_matrix[i][j] : i, j \in DOMAIN distance_matrix} : \A y \in {distance_matrix[i][j] : i, j \in DOMAIN distance_matrix} : x >= y

\* tools::get_norm_distance_matrix: min stays 0, max is the largest distance
\* between two entries of v1
norm_base(v1) == CHOOSE x \in {AbsDiff(v1[i], v1[j]) : i, j \in DOMAIN v1} : \A y \in {AbsDiff(v1[i], v1[j]) : i, j \in DOMAIN v1} : x >= y

\* the product of the four bases; a base of 0 makes the code divide 0 by 0
ShawScale ==
    (max_d - min_d) * norm_base(data_obj.start_window)
        * norm_base(data_obj.end_window) * norm_base(data_obj.demand)

\* entries of the normalised matrices, in units of 1 / ShawScale
norm_distance_matrix(i, j) ==
    (distance_matrix[i][j] - min_d) * (ShawScale \div (max_d - min_d))
norm_start_window_matrix(i, j) ==
    AbsDiff(data_obj.start_window[i], data_obj.start_window[j])
        * (ShawScale \div norm_base(data_obj.start_window))
norm_end_window_matrix(i, j) ==
    AbsDiff(data_obj.end_window[i], data_obj.end_window[j])
        * (ShawScale \div norm_base(data_obj.end_window))
norm_demand_matrix(i, j) ==
    AbsDiff(data_obj.demand[i], data_obj.demand[j])
        * (ShawScale \div norm_base(data_obj.demand))

\* the weights get_destroy_functors gives the operator "shaw_destroy"
shaw_weights ==
    [distance_weight |-> 9, window_weight |-> 3, demand_weight |-> 2,
     vehicle_weight |-> 5]

\* step 2.2.1 without the vehicle term
shaw_similarity(w, rnd_customer_id, cand_id) ==
    w.distance_weight * norm_distance_matrix(rnd_customer_id + 1, cand_id + 1)
        + w.window_weight * norm_start_window_matrix(rnd_customer_id, cand_id)
        + w.window_weight * norm_end_window_matrix(rnd_customer_id, cand_id)
        + w.demand_weight * norm_demand_matrix(rnd_customer_id, cand_id)

\* steps 2.2.1 and 2.2.2: the route of the candidate is compared with itself;
\* rnd_factor is random_noise = 0, so pow(UNI, rnd_factor) = 1
shaw_relatedness(sol, w, rnd_customer_id, cand_id) ==
    shaw_similarity(w, rnd_customer_id, cand_id)
        + (IF sol.route_chromosome[cand_id] = sol.route_chromosome[cand_id]
           THEN w.vehicle_weight * ShawScale ELSE 0)

\* step 2.2.3: the first candidate position of least relatedness (0-based)
shaw_related_pos(sol, w, rnd_customer_id, candidates) ==
    (CHOOSE p \in 1..Len(candidates) :
        /\ \A p2 \in 1..Len(candidates) :
               shaw_relatedness(sol, w, rnd_customer_id, candidates[p])
                   <= shaw_relatedness(sol, w, rnd_customer_id, candidates[p2])
        /\ \A p2 \in 1..(p - 1) :
               shaw_relatedness(sol, w, rnd_customer_id, candidates[p])
                   < shaw_relatedness(sol, w, rnd_customer_id, candidates[p2])) - 1

\* step 2: picks[i] is the value of rand_number(i - 1); the reference and the
\* candidates of the last pass are kept for the scores to be seen
RECURSIVE shaw_loop(_, _, _, _, _, _, _, _, _)
shaw_loop(sol, w, removed_customers, candidates, i, nr_removed_customers, picks, reference, scored) ==
    IF i >= nr_removed_customers
    THEN [removed |-> removed_customers, reference |-> reference, scored |-> scored]
    ELSE shaw_loop(sol, w,
             Append(removed_customers,
                 candidates[shaw_related_pos(sol, w,
                     removed_customers[picks[i] + 1], candidates) + 1]),
             remove_at(candidates,
                 shaw_related_pos(sol, w, removed_customers[picks[i] + 1], candidates)),
             i + 1, nr_removed_customers, picks,
             removed_customers[picks[i] + 1], candidates)

\* steps 1 and 2: u_start is the value of rand_number(nr_customer - 1)
shaw_select(sol, w, normal_draw, u_start, picks) ==
    shaw_loop(sol, w, <<u_start>>, remove_at(range(data_obj.nr_customer), u_start),
        1, Max(0, Min(data_obj.nr_customer - 1, normal_draw)), picks, -1, <<>>)

\* ShawDestroyOperator::operator()
ShawDestroyOperator(sol, w, capa_error_weight, frame_error_weight, normal_draw, u_start, picks) ==
    [sol |-> evaluate_solution(
                 remove_customers(sol,
                     shaw_select(sol, w, normal_draw, u_start, picks).removed, 1).sol,
                 capa_error_weight, frame_error_weight),
     removed |-> shaw_select(sol, w, normal_draw, u_start, picks).removed,
     failed |-> remove_customers(sol,
                    shaw_select(sol, w, normal_draw, u_start, picks).removed, 1).failed,
     reference |-> shaw_select(sol, w, normal_draw, u_start, picks).reference,
     scored |-> shaw_select(sol, w, normal_draw, u_start, picks).scored]

-----------------------------------------------------------------------------
(* RouletteWheel.  weights and scores are fixed-point numbers with           *)
(* WheelScale units per 1.0.                                                 *)

\* wheel_parameter = WheelParNum / WheelParDen
WheelParNum == 1
WheelParDen == 10

\* functor_min_weight
functor_min_weight == 1

\* last_functor_id is not set by the constructor; it is written by
\* get_random_functor_id before update_stats reads it
RouletteWheel(nr_functors) ==
    [nr_functors |-> nr_functors,
     last_functor_id |-> 0,
     weights |-> Vec(nr_functors, WheelScale \div nr_functors),
     scores |-> Vec(nr_functors, 0),
     nr_uses |-> Vec(nr_functors, 0)]

RECURSIVE select_loop(_, _, _, _)
select_loop(wheel, u, functor_id, current_weight) ==
    IF functor_id >= wheel.nr_functors THEN -1
    ELSE IF u * SumVec(wheel.weights, wheel.nr_functors)
            <= (current_weight + wheel.weights[functor_id]) * UniDen
    THEN functor_id
    ELSE select_loop(wheel, u, functor_id + 1, current_weight + wheel.weights[functor_id])

\* rnd = UNI * sum_of_weight with UNI = u / UniDen; the first functor whose
\* cumulated weight reaches rnd is selected; -1 stands for the exception
\* "No functor selected"
get_random_functor_id(wheel, u) == select_loop(wheel, u, 0, 0)

update_stats(wheel, new_score) ==
    [wheel EXCEPT !.nr_uses[wheel.last_functor_id] = @ + 1,
                  !.scores[wheel.last_functor_id] = @ + new_score]

\* the weight computed for one functor before the clamp
new_weight(wheel, functor_id) ==
    (WheelParNum * (wheel.scores[functor_id] \div wheel.nr_uses[functor_id])
     + (WheelParDen - WheelParNum) * wheel.weights[functor_id]) \div WheelParDen

\* an update without the clamp
clamp_weight_missing(weight) == weight

\* the clamp of update_weights
clamp_weight(weight) ==
    IF weight < functor_min_weight * WheelScale
    THEN functor_min_weight * WheelScale ELSE weight

\* an update that leaves the weight of an unused functor as it is
update_weights_keeping_unused(wheel) ==
    [wheel EXCEPT
        !.weights = [functor_id \in 0..(wheel.nr_functors - 1) |->
                        IF wheel.nr_uses[functor_id] > 0
                        THEN clamp_weight(new_weight(wheel, functor_id))
                        ELSE wheel.weights[functor_id]],
        !.scores = Vec(wheel.nr_functors, 0),
        !.nr_uses = Vec(wheel.nr_functors, 0)]

update_weights(wheel) ==
    [wheel EXCEPT
        !.weights = [functor_id \in 0..(wheel.nr_functors - 1) |->
                        IF wheel.nr_uses[functor_id] > 0
                        THEN clamp_weight(new_weight(wheel, functor_id))
                        ELSE functor_min_weight * WheelScale],
        !.scores = Vec(wheel.nr_functors, 0),
        !.nr_uses = Vec(wheel.nr_functors, 0)]

-----------------------------------------------------------------------------
(* ALNS: hyperparameters and construction *)

\* the operators the wheels are built from, in wheel order
operator_names_d == <<"random_destroy", "route_destroy", "demand_destroy">>
operator_names_r == <<"basic_greedy", "random_greedy", "deep_greedy">>

\* iterations without improvement after which the loop is left
max_iterations == 2

\* the wheels update their weights every nr_functors * wheel_memory_length
\* iterations
wheel_memory_length == 1

functor_reward_best == 33
functor_reward_accept_better == 13
functor_reward_unique == 9
functor_reward_divers == 9
functor_penalty == 0

\* target_inf = 0.2, in percent
target_inf_pct == 20

shakeup_log == 20
mean_removal_log == 2

\* iteration_inf == 99 triggers update_weights
inf_window_last == 99

\* 1000 * ln(n) for n = 1..21
LnMilli ==
    <<0, 693, 1099, 1386, 1609, 1792, 1946, 2079, 2197, 2303, 2398,
      2485, 2565, 2639, 2708, 2773, 2833, 2890, 2944, 2996, 3045>>

CeilDiv(a, b) == (a + b - 1) \div b

\* log(nr_customer) / log(mean_removal_log), the value the constructor sets
initial_mean_removal ==
    (LnMilli[data_obj.nr_customer] * MeanScale) \div LnMilli[mean_removal_log]

\* ceil(log(nr_customer) / log(mean_removal_log))
reset_mean_removal ==
    CeilDiv(LnMilli[data_obj.nr_customer], LnMilli[mean_removal_log]) * MeanScale

\* ceil((log(iteration_wi + 1) / log(shakeup_log))
\*      * (log(nr_customer) / log(mean_removal_log)))
shakeup_mean_removal(iteration_wi) ==
    CeilDiv(LnMilli[iteration_wi + 1] * LnMilli[data_obj.nr_customer],
            LnMilli[shakeup_log] * LnMilli[mean_removal_log]) * MeanScale

Matrix(n, v) == [i \in 0..(n - 1) |-> [j \in 0..(n - 1) |-> v]]

\* ALNS::ALNS: the three solutions are in the null state, whose is_feasible
\* and solution_quality are uninitialised
ALNSObject(garbage_feasible, garbage_quality) ==
    [running_solution |-> NullSolution(garbage_feasible, garbage_quality),
     current_solution |-> NullSolution(garbage_feasible, garbage_quality),
     solution |-> NullSolution(garbage_feasible, garbage_quality),
     visited_solutions |-> {},
     capa_error_weight |-> 1 * WeightScale,
     frame_error_weight |-> 1 * WeightScale,
     mean_removal |-> initial_mean_removal,
     inf_count |-> 0,
     node_pair_potential_matrix |-> Matrix(data_obj.nr_nodes, DBL_MAX),
     node_pair_useage_matrix |-> Matrix(data_obj.nr_nodes, 0),
     destroy_wheel |-> RouletteWheel(Len(operator_names_d)),
     insertion_wheel |-> RouletteWheel(Len(operator_names_r)),
     iterations |-> 0,
     value |-> -1]

\* the node pairs a route drives: depot -> first, ..., last -> depot
RouteArcs(route) ==
    [k \in 1..(Len(route) + 1) |->
        [from |-> IF k = 1 THEN 0 ELSE route[k - 1] + 1,
         to |-> IF k > Len(route) THEN 0 ELSE route[k] + 1]]

RECURSIVE historic_route_loop(_, _, _, _, _)
historic_route_loop(potential, useage, arcs, k, driving_time) ==
    IF k > Len(arcs) THEN [potential |-> potential, useage |-> useage]
    ELSE LET f == arcs[k].from
             t == arcs[k].to
         IN  historic_route_loop(
                 IF t = 0 \/ potential[f][t] > driving_time
                 THEN [potential EXCEPT ![f][t] = driving_time] ELSE potential,
                 [useage EXCEPT ![f][t] = @ + 1],
                 arcs, k + 1, driving_time)

RECURSIVE update_historic_loop(_, _, _, _)
update_historic_loop(potential, useage, sol, route_id) ==
    IF route_id >= Size(sol.solution_representation)
    THEN [potential |-> potential, useage |-> useage]
    ELSE LET route == sol.solution_representation[route_id]
             r == IF Len(route) > 0
                  THEN historic_route_loop(potential, useage, RouteArcs(route), 1,
                           sol.driving_time)
                  ELSE [potential |-> potential, useage |-> useage]
         IN  update_historic_loop(r.potential, r.useage, sol, route_id + 1)

update_historic_matrices(a) ==
    LET r == update_historic_loop(a.node_pair_potential_matrix,
                 a.node_pair_useage_matrix, a.running_solution, 0)
    IN  [a EXCEPT !.node_pair_potential_matrix = r.potential,
                  !.node_pair_useage_matrix = r.useage]

RECURSIVE SumSeq(_)
SumSeq(s) == IF s = <<>> THEN 0 ELSE Head(s) + SumSeq(Tail(s))

\* Solution::get_diversity as the fraction num / den; useage / new_iter is an
\* integer division in the code
get_diversity(sol, node_pair_useage_matrix, iteration) ==
    LET new_iter == iteration + 1
        routes == sol.solution_representation
        used == {route_id \in DOMAIN routes : Len(routes[route_id]) > 0}
        route_div(route) ==
            SumSeq([k \in 1..(Len(route) + 1) |->
                1 - (node_pair_useage_matrix[RouteArcs(route)[k].from]
                                            [RouteArcs(route)[k].to] \div new_iter)])
        per_route == [route_id \in DOMAIN routes |->
                         IF route_id \in used THEN route_div(routes[route_id]) ELSE 0]
    IN  [num |-> SumVec(per_route, Size(routes)),
         den |-> data_obj.nr_customer + Cardinality(used)]

\* an update that leaves the quality of the running solution as it is
alns_update_weights_current_only(a) ==
    LET factor == IF a.inf_count + 5 < target_inf_pct THEN 85
                  ELSE IF a.inf_count - 5 > target_inf_pct THEN 120
                  ELSE 100
        cw == (a.capa_error_weight * factor) \div 100
        fw == (a.frame_error_weight * factor) \div 100
    IN  [a EXCEPT !.capa_error_weight = cw,
                  !.frame_error_weight = fw,
                  !.current_solution = set_quality(a.current_solution, cw, fw)]

\* ALNS::update_weights: current_inf = inf_count / 100 against target_inf,
\* compared in percent; the factors are 0.85 and 1.2
alns_update_weights(a) ==
    LET factor == IF a.inf_count + 5 < target_inf_pct THEN 85
                  ELSE IF a.inf_count - 5 > target_inf_pct THEN 120
                  ELSE 100
        cw == (a.capa_error_weight * factor) \div 100
        fw == (a.frame_error_weight * factor) \div 100
    IN  [a EXCEPT !.capa_error_weight = cw,
                  !.frame_error_weight = fw,
                  !.current_solution = set_quality(a.current_solution, cw, fw),
                  !.running_solution = set_quality(a.running_solution, cw, fw)]

-----------------------------------------------------------------------------
(* ALNS::solve, step by step.  A step maps the object a and the activation f *)
(* to the pair it leaves behind.  frame.pc is the position in solve:         *)
(*   "init"       in the while loop of route_init_random                     *)
(*   "loop"       at the test of the main loop                               *)
(*   "selected"   both wheels have selected their operator                   *)
(*   "destroyed"  the destroy operator has returned removed_customers        *)
(*   "repaired"   the insertion operator has returned                        *)
(*   "returned"   solve has returned frame.returned[1]                       *)
(*   "aborted"    the exception frame.error has left solve                   *)

\* the activation at the entry of solve, inside initialization()
InitialFrame ==
    [pc |-> "init",
     solution_value |-> Vec(data_obj.nr_vehicles, <<>>),
     vehicle_loads |-> Vec(data_obj.nr_vehicles, 0),
     node_ids |-> range(data_obj.nr_customer),
     iteration |-> 0,
     iteration_wi |-> 0,
     iteration_inf |-> 0,
     removed_customers |-> <<>>,
     error |-> "none",
     exit_reason |-> "none",
     returned |-> <<>>]

Abort(a, f, error) ==
    [alns |-> a, frame |-> [f EXCEPT !.pc = "aborted", !.error = error]]

\* one iteration of the while loop of route_init_random: u_node and u_route
\* are the UNI values of its two calls of rand_number
route_init_random_step(a, f, u_node, u_route) ==
    LET node_pos == rand_number(Len(f.node_ids) - 1, 0, u_node)
        node_id == f.node_ids[node_pos + 1]
        route_id_start == rand_number(data_obj.nr_vehicles - 1, 0, u_route)
        max_capacity == data_obj.vehicle_cap + data_obj.add_pseudo_capacity
        fits(route_id) ==
            f.vehicle_loads[route_id] + data_obj.demand[node_id] < max_capacity
        behind == {r \in route_id_start..(data_obj.nr_vehicles - 1) : fits(r)}
        before == {r \in 0..(route_id_start - 1) : fits(r)}
        lowest(S) == CHOOSE r \in S : \A q \in S : r <= q
        route_id == IF behind /= {} THEN lowest(behind) ELSE lowest(before)
    IN  IF behind = {} /\ before = {}
        THEN Abort(a, f, "invalid_argument")
        ELSE [alns |-> a,
              frame |-> [f EXCEPT
                  !.solution_value[route_id] = Append(@, node_id),
                  !.vehicle_loads[route_id] = @ + data_obj.demand[node_id],
                  !.node_ids = remove_at(@, node_pos)]]

\* the rest of ALNS::initialization and solve up to the loop: only
\* running_solution and current_solution are assigned
initialization_finish(a, f) ==
    LET initial_solution == NewSolution(f.solution_value, a.capa_error_weight,
                                a.frame_error_weight)
    IN  [alns |-> [a EXCEPT !.running_solution = initial_solution,
                            !.current_solution = initial_solution],
         frame |-> [f EXCEPT !.pc = "loop",
                             !.solution_value = <<>>,
                             !.vehicle_loads = <<>>]]

\* leaving the loop: iterations, value and the returned copy of solution
solve_return(a, f, reason) ==
    [alns |-> [a EXCEPT !.iterations = f.iteration,
                        !.value = a.solution.driving_time],
     frame |-> [f EXCEPT !.pc = "returned",
                         !.exit_reason = reason,
                         !.returned = <<a.solution>>]]

\* destroy_wheel.get_random_operator(); insertion_wheel.get_random_operator()
select_operators(a, f, u_d, u_r) ==
    LET d_id == get_random_functor_id(a.destroy_wheel, u_d)
        r_id == get_random_functor_id(a.insertion_wheel, u_r)
    IN  IF d_id < 0 \/ r_id < 0 THEN Abort(a, f, "exception")
        ELSE [alns |-> [a EXCEPT !.destroy_wheel.last_functor_id = d_id,
                                 !.insertion_wheel.last_functor_id = r_id],
              frame |-> [f EXCEPT !.pc = "selected"]]

\* removed_customers = destroy_operator() for an operator result r
Destroyed(a, f, r) ==
    [alns |-> [a EXCEPT !.running_solution = r.sol],
     frame |-> [f EXCEPT !.pc = "destroyed", !.removed_customers = r.removed]]

destroy_random(a, f, draws) ==
    Destroyed(a, f, RandomDestroyOperator(a.running_solution, a.capa_error_weight,
                        a.frame_error_weight, a.mean_removal, draws))

destroy_route(a, f, u) ==
    Destroyed(a, f, RandomRouteDestroyOperator(a.running_solution, a.capa_error_weight,
                        a.frame_error_weight, u))

destroy_demand(a, f, normal_draw) ==
    LET r == BiggestDemandDestroyOperator(a.running_solution, a.capa_error_weight,
                 a.frame_error_weight, normal_draw)
    IN  IF r.failed THEN Abort(a, f, "logic_error") ELSE Destroyed(a, f, r)

\* insertion_operator(removed_customers) for an operator result r
Repaired(a, f, r) ==
    IF r.thrown
    THEN Abort([a EXCEPT !.running_solution = r.sol], f, "InfeasibilityException")
    ELSE [alns |-> [a EXCEPT !.running_solution = r.sol],
          frame |-> [f EXCEPT !.pc = "repaired"]]

repair_basic(a, f) ==
    Repaired(a, f, BasicGreedyInsertionOperator(a.running_solution,
                       a.capa_error_weight, a.frame_error_weight, f.removed_customers))

repair_random(a, f, draws) ==
    Repaired(a, f, RandomGreedyInsertionOperator(a.running_solution,
                       a.capa_error_weight, a.frame_error_weight,
                       f.removed_customers, draws, 1))

\* a deep greedy result r: crashed when the process has ended inside the
\* operator
DeepRepaired(a, f, r) ==
    IF r.crashed
    THEN Abort([a EXCEPT !.running_solution = r.sol], f, "crash")
    ELSE Repaired(a, f, r)

repair_deep(a, f, unchecked) ==
    DeepRepaired(a, f, DeepGreedyInsertionOperator(a.running_solution,
                           a.capa_error_weight, a.frame_error_weight,
                           f.removed_customers, unchecked))

\* a test that forgets the feasibility of the running solution
improves_best_ignoring_feasibility(running, best) ==
    running.driving_time < best.driving_time

\* the test of step 4.3 of solve
improves_best(running, best) ==
    (running.driving_time < best.driving_time) /\ running.is_feasible

\* the weight update of a wheel at the end of an iteration
wheel_due(iteration, nr_functors) ==
    iteration % (nr_functors * wheel_memory_length) = 0

\* Steps 3.2 to 4.3 of the loop body: what the iteration decides about the
\* running solution of a1, the object after update_historic_matrices.
\* relevance is diversity_relevance as relevance / RelDen
iteration_decisions(a1, f, p, u_accept) ==
    [count_sol |-> a1.running_solution.solution_representation \in a1.visited_solutions,
     better |-> a1.running_solution.solution_quality
                    < a1.current_solution.solution_quality,
     relevance |-> IF a1.running_solution.solution_quality
                        = a1.current_solution.solution_quality
                   THEN RelDen ELSE p,
     accepted |-> \/ a1.running_solution.solution_quality
                        < a1.current_solution.solution_quality
                  \/ u_accept * RelDen
                        < (IF a1.running_solution.solution_quality
                                = a1.current_solution.solution_quality
                           THEN RelDen ELSE p) * UniDen,
     is_best |-> improves_best(a1.running_solution, a1.solution),
     diversity |-> get_diversity(a1.running_solution, a1.node_pair_useage_matrix,
                       f.iteration)]

\* operation_benefit in units of 1 / WheelScale
operation_benefit(d) ==
    (IF ~d.count_sol THEN functor_reward_unique * WheelScale ELSE 0)
    + (IF d.better THEN functor_reward_accept_better * WheelScale
       ELSE ((d.diversity.num * d.relevance * functor_reward_divers * WheelScale)
                \div (d.diversity.den * RelDen))
            + functor_penalty * WheelScale)
    + (IF d.is_best THEN functor_reward_best * WheelScale ELSE 0)

\* iteration_wi = 0 on a new best solution, iteration_wi++ otherwise
next_iteration_wi(f, is_best) == IF is_best THEN 0 ELSE f.iteration_wi + 1

\* Steps 4.1 to 4.5: acceptance, the best solution, mean_removal, the log of
\* visited solutions and inf_count
accept_and_log(a1, f, d) ==
    [a1 EXCEPT
        !.current_solution = IF d.accepted THEN a1.running_solution ELSE @,
        !.solution = IF d.is_best THEN a1.running_solution ELSE @,
        !.mean_removal =
            IF shakeup_log > 0
            THEN (IF d.is_best THEN reset_mean_removal
                  ELSE shakeup_mean_removal(next_iteration_wi(f, d.is_best)))
            ELSE @,
        !.visited_solutions =
            IF ~d.count_sol
            THEN @ \cup {a1.running_solution.solution_representation} ELSE @,
        !.inf_count = IF ~a1.running_solution.is_feasible THEN @ + 1 ELSE @]

\* Step 5.1: every 100 iterations the penalty weights are adapted
adapt_penalties(a2, f) ==
    IF f.iteration_inf = inf_window_last
    THEN [alns_update_weights(a2) EXCEPT !.inf_count = 0]
    ELSE a2

\* Step 5.2 for one wheel w that has received the score
wheel_after(w, iteration) ==
    IF wheel_due(iteration, w.nr_functors) THEN update_weights(w) ELSE w

\* an end of the iteration that leaves the running solution as it is
finish_iteration_keeping_running(a3, f, d, new_score) ==
    [alns |-> [a3 EXCEPT
         !.destroy_wheel = wheel_after(update_stats(@, new_score), f.iteration),
         !.insertion_wheel = wheel_after(update_stats(@, new_score), f.iteration)],
     frame |-> [f EXCEPT
         !.pc = "loop",
         !.iteration = @ + 1,
         !.iteration_wi = next_iteration_wi(f, d.is_best),
         !.iteration_inf = IF @ = inf_window_last THEN 0 ELSE @ + 1,
         !.removed_customers = <<>>]]

\* Steps 5.2 to 5.4: the wheels, the reset of the running solution and the
\* counters
finish_iteration(a3, f, d, new_score) ==
    [alns |-> [a3 EXCEPT
         !.destroy_wheel = wheel_after(update_stats(@, new_score), f.iteration),
         !.insertion_wheel = wheel_after(update_stats(@, new_score), f.iteration),
         !.running_solution = a3.current_solution],
     frame |-> [f EXCEPT
         !.pc = "loop",
         !.iteration = @ + 1,
         !.iteration_wi = next_iteration_wi(f, d.is_best),
         !.iteration_inf = IF @ = inf_window_last THEN 0 ELSE @ + 1,
         !.removed_customers = <<>>]]

\* the loop body for the decisions d
apply_decisions(a1, f, d, execution_time) ==
    finish_iteration(adapt_penalties(accept_and_log(a1, f, d), f), f, d,
        operation_benefit(d) \div execution_time)

\* Steps 3.2 to 5.4 of the loop body.
\*   p          exp(-(running_quality - current_quality) / current_temperature)
\*              as p / RelDen when the running solution is worse than the
\*              current one; it is 1 when the qualities are equal
\*   u_accept   the UNI value of the acceptance test
\*   execution_time   the measured milliseconds of the iteration, plus one
\* current_temperature enters only through p and is not kept
evaluate_iteration_from(a1, f, p, u_accept, execution_time) ==
    apply_decisions(a1, f, iteration_decisions(a1, f, p, u_accept), execution_time)

evaluate_iteration(a, f, p, u_accept, execution_time) ==
    evaluate_iteration_from(update_historic_matrices(a), f, p, u_accept, execution_time)

-----------------------------------------------------------------------------
(* Draws *)

\* one UNI value for every result of rand_number(max, min)
RepDraws(max, min) ==
    {u \in UniDraws :
        \A v \in 0..(u - 1) : rand_number(max, min, v) /= rand_number(max, min, u)}

\* one UNI value for every outcome of the test of RandomDestroyOperator,
\* rand_number(nr_customer, 0) > mean_removal
KeepDraws(mean_removal) ==
    {u \in UniDraws :
        \A v \in 0..(u - 1) :
            (rand_number(data_obj.nr_customer, 0, v) * MeanScale > mean_removal)
            /= (rand_number(data_obj.nr_customer, 0, u) * MeanScale > mean_removal)}

\* the UNI values of RandomDestroyOperator on n routed customers
DestroyDrawSeqs(n, mean_removal) == [1..n -> KeepDraws(mean_removal)]

\* the UNI values of RandomGreedyInsertionOperator on n removed customers:
\* the k-th call is rand_number(n - k)
RECURSIVE GreedyDrawSeqs(_)
GreedyDrawSeqs(n) ==
    IF n = 0 THEN {<<>>}
    ELSE {<<u>> \o rest : u \in RepDraws(n - 1, 0), rest \in GreedyDrawSeqs(n - 1)}

\* values of rand_number_normal: any integer, of which the operators keep
\* max(0, min(nr_customer - 1, .))
NormalDraws == (-1)..data_obj.nr_customer

\* diversity_relevance of a solution worse than the current one lies in [0, 1)
RelevanceDraws == 0..(RelDen - 1)

\* one UNI value for every outcome of the acceptance test
\* UNI < diversity_relevance over all values of diversity_relevance
AcceptDraws ==
    {u \in UniDraws :
        \A v \in 0..(u - 1) :
            \E p \in 0..RelDen : (v * RelDen < p * UniDen) /= (u * RelDen < p * UniDen)}

ExecutionTimes == 1..MaxExecMs

NrRouted(sol) ==
    SumSeq([r \in 1..Size(sol.solution_representation) |->
               Len(sol.solution_representation[r - 1])])

-----------------------------------------------------------------------------
(* The run *)

Init ==
    /\ data_obj \in Instances
    /\ \E garbage_feasible \in BOOLEAN, garbage_quality \in GarbageQualities :
           alns = ALNSObject(garbage_feasible, garbage_quality)
    /\ frame = InitialFrame
    /\ twin_alns = <<>>
    /\ twin_frame = <<>>
    /\ bench = <<>>

\* the run moves to the pair r, the second object rests
Moves(r) ==
    /\ alns' = r.alns
    /\ frame' = r.frame
    /\ UNCHANGED <<data_obj, twin_alns, twin_frame, bench>>

RouteInitRandom ==
    /\ frame.pc = "init"
    /\ Len(frame.node_ids) > 0
    /\ \E u_node \in RepDraws(Len(frame.node_ids) - 1, 0),
          u_route \in RepDraws(data_obj.nr_vehicles - 1, 0) :
           Moves(route_init_random_step(alns, frame, u_node, u_route))

Initialization ==
    /\ frame.pc = "init"
    /\ Len(frame.node_ids) = 0
    /\ Moves(initialization_finish(alns, frame))

LoopExitIterations ==
    /\ frame.pc = "loop"
    /\ ~(frame.iteration_wi < max_iterations)
    /\ Moves(solve_return(alns, frame, "max_iterations"))

\* (prev_time_stamp - start) / 1000 < max_time fails: the clock decides, and
\* prev_time_stamp = start before the first iteration
LoopExitTime ==
    /\ frame.pc = "loop"
    /\ frame.iteration > 0
    /\ Moves(solve_return(alns, frame, "max_time"))

SelectOperators ==
    /\ frame.pc = "loop"
    /\ frame.iteration_wi < max_iterations
    /\ frame.iteration < MaxIteration
    /\ \E u_d \in UniDraws, u_r \in UniDraws :
           Moves(select_operators(alns, frame, u_d, u_r))

RandomDestroy ==
    /\ frame.pc = "selected"
    /\ operator_names_d[alns.destroy_wheel.last_functor_id + 1] = "random_destroy"
    /\ \E draws \in DestroyDrawSeqs(NrRouted(alns.running_solution), alns.mean_removal) :
           Moves(destroy_random(alns, frame, draws))

RouteDestroy ==
    /\ frame.pc = "selected"
    /\ operator_names_d[alns.destroy_wheel.last_functor_id + 1] = "route_destroy"
    /\ \E u \in RepDraws(data_obj.nr_vehicles - 1, 0) :
           Moves(destroy_route(alns, frame, u))

DemandDestroy ==
    /\ frame.pc = "selected"
    /\ operator_names_d[alns.destroy_wheel.last_functor_id + 1] = "demand_destroy"
    /\ \E normal_draw \in NormalDraws :
           Moves(destroy_demand(alns, frame, normal_draw))

BasicGreedy ==
    /\ frame.pc = "destroyed"
    /\ operator_names_r[alns.insertion_wheel.last_functor_id + 1] = "basic_greedy"
    /\ Moves(repair_basic(alns, frame))

RandomGreedy ==
    /\ frame.pc = "destroyed"
    /\ operator_names_r[alns.insertion_wheel.last_functor_id + 1] = "random_greedy"
    /\ \E draws \in GreedyDrawSeqs(Len(frame.removed_customers)) :
           Moves(repair_random(alns, frame, draws))

\* unchecked: whether the build reads behind the end of a vector unchecked
DeepGreedy ==
    /\ frame.pc = "destroyed"
    /\ operator_names_r[alns.insertion_wheel.last_functor_id + 1] = "deep_greedy"
    /\ \E unchecked \in BOOLEAN :
           Moves(repair_deep(alns, frame, unchecked))

EvaluateIteration ==
    /\ frame.pc = "repaired"
    /\ \E p \in RelevanceDraws, u_accept \in AcceptDraws, execution_time \in ExecutionTimes :
           Moves(evaluate_iteration(alns, frame, p, u_accept, execution_time))

Next ==
    \/ RouteInitRandom
    \/ Initialization
    \/ LoopExitIterations
    \/ LoopExitTime
    \/ SelectOperators
    \/ RandomDestroy
    \/ RouteDestroy
    \/ DemandDestroy
    \/ BasicGreedy
    \/ RandomGreedy
    \/ DeepGreedy
    \/ EvaluateIteration

Spec == Init /\ [][Next]_vars

-----------------------------------------------------------------------------
(* Properties of the evaluation and of the operators *)

\* the position in solve after an operator has returned
AfterDestroy == frame.pc = "destroyed"
AfterRepair == frame.pc = "repaired"
AfterOperator == AfterDestroy \/ AfterRepair

\* what evaluate_solution computes on a copy of sol under the current weights
FromScratch(sol) ==
    evaluate_solution(sol, alns.capa_error_weight, alns.frame_error_weight)

\* the demand the customers of a route sum up to
route_load(route) == SumSeq([k \in 1..Len(route) |-> data_obj.demand[route[k]]])

\* sum over all routes of max(0, route_load - vehicle_capacity)
TrueCapaError(sol) ==
    SumVec([route_id \in DOMAIN sol.solution_representation |->
               Max(0, route_load(sol.solution_representation[route_id])
                      - data_obj.vehicle_cap)],
           Size(sol.solution_representation))

\* how often customer c is routed in sol
Occurrences(sol, c) ==
    SumVec([route_id \in DOMAIN sol.solution_representation |->
               Cardinality({k \in 1..Len(sol.solution_representation[route_id]) :
                               sol.solution_representation[route_id][k] = c})],
           Size(sol.solution_representation))

\* every customer id in [0, nr_customer) appears exactly once across all routes
Complete(sol) == \A c \in Customers : Occurrences(sol, c) = 1

\* the best solution, the current solution are still the null state of the
\* constructor
BestIsNull == alns.solution.solution_representation = <<>>
CurrentIsNull == alns.current_solution.solution_representation = <<>>

\* every route respects the vehicle capacity and every routed customer is
\* reached within its end window, both by the cached arrival times and by the
\* arrival times of a from-scratch evaluation
TrulyFeasible(sol) ==
    /\ \A route_id \in DOMAIN sol.solution_representation :
           route_load(sol.solution_representation[route_id]) <= data_obj.vehicle_cap
    /\ \A route_id \in DOMAIN sol.solution_representation :
           \A k \in 1..Len(sol.solution_representation[route_id]) :
               LET c == sol.solution_representation[route_id][k]
               IN  /\ sol.arrival_times[c] <= data_obj.end_window[c]
                   /\ FromScratch(sol).arrival_times[c] <= data_obj.end_window[c]

\* C1: after every destroy or repair operator invocation on the running
\* solution, every cached field of the solution equals the value a
\* from-scratch evaluate_solution computes on a copy with the same routes and
\* the same penalty weights
C1_CachesMatchFromScratch ==
    AfterOperator => alns.running_solution = FromScratch(alns.running_solution)

C3_CapaErrorIsSumOfOverloads ==
    AfterOperator => alns.running_solution.capa_error = TrueCapaError(alns.running_solution)

-----------------------------------------------------------------------------
(* Properties of the driver and of the wheels *)

\* the positions of solve from the first test of the main loop on
InOrAfterLoop == frame.pc \in {"loop", "selected", "destroyed", "repaired", "returned"}

\* C5: the driving time of the best solution never increases; the best
\* solution is replaced only by the running solution, and only when that is
\* flagged feasible and its driving time is strictly smaller than the driving
\* time of the best solution held at that moment
C5_BestNeverWorsens ==
    [][ /\ alns'.solution.driving_time <= alns.solution.driving_time
        /\ (alns'.solution # alns.solution) =>
               /\ alns'.solution = alns.running_solution
               /\ alns.running_solution.is_feasible
               /\ alns.running_solution.driving_time < alns.solution.driving_time
      ]_vars

\* the best solution has been replaced in two successive iterations, the
\* second time by a strictly better solution
C5_Witness ==
    /\ frame.pc = "loop"
    /\ frame.iteration = 2
    /\ frame.iteration_wi = 0

\* C6: every repair operator runs to completion and places every removed
\* customer; InfeasibilityException never leaves a repair operator nor solve
C6_InfeasibilityNeverEscapes ==
    /\ ~(frame.pc = "aborted" /\ frame.error = "InfeasibilityException")
    /\ AfterRepair =>
           \A k \in 1..Len(frame.removed_customers) :
               Occurrences(alns.running_solution, frame.removed_customers[k]) = 1

\* C7: initialization seeds the best solution as well: from the first
\* iteration on, and in the value solve returns, the best solution is a
\* complete routing of all customers with a finite driving time
C7_BestSeededByInitialization ==
    /\ InOrAfterLoop =>
           /\ Complete(alns.solution)
           /\ alns.solution.driving_time < DBL_MAX
    /\ frame.pc = "returned" =>
           /\ Complete(frame.returned[1])
           /\ frame.returned[1].driving_time < DBL_MAX

\* C8: for each wheel the sum of the weights is positive in every state, so
\* get_random_functor_id selects a functor for every value of UNI, and every
\* weight is at least min_weight after every call of update_weights (both
\* wheels are updated in the iteration with number 0)
C8_WheelWeights ==
    \A wheel \in {alns.destroy_wheel, alns.insertion_wheel} :
        /\ SumVec(wheel.weights, wheel.nr_functors) > 0
        /\ \A u \in UniDraws : get_random_functor_id(wheel, u) >= 0
        /\ frame.iteration >= 1 =>
               \A functor_id \in 0..(wheel.nr_functors - 1) :
                   wheel.weights[functor_id] >= functor_min_weight * WheelScale

\* update_weights has run on both wheels: it has set one weight above
\* min_weight and another one to min_weight
C8_Witness ==
    /\ frame.iteration >= 1
    /\ \A wheel \in {alns.destroy_wheel, alns.insertion_wheel} :
           /\ \E functor_id \in 0..(wheel.nr_functors - 1) :
                  wheel.weights[functor_id] > functor_min_weight * WheelScale
           /\ \E functor_id \in 0..(wheel.nr_functors - 1) :
                  wheel.weights[functor_id] = functor_min_weight * WheelScale

\* C10: solve always returns, and returns the best solution; when it returns
\* on the iteration criterion, the number of consecutive iterations without
\* a new best solution exceeds max_iterations
C10_ReturnsBestAfterMaxIterations ==
    /\ frame.pc # "aborted"
    /\ frame.pc = "returned" => frame.returned[1] = alns.solution
    /\ (frame.pc = "returned" /\ frame.exit_reason = "max_iterations") =>
           frame.iteration_wi > max_iterations

-----------------------------------------------------------------------------
(* Two runs of solve on the same instance, with the same hyperparameters and *)
(* the same seed.  The KISS generator of tools.h is seeded by constants, so  *)
(* both runs read the same UNI values: every u of an action is given to both *)
(* runs.  rand_number_normal seeds a fresh std::mt19937 from                 *)
(* std::random_device on every call, and the timestamps come from            *)
(* std::chrono::system_clock: these values are drawn for each run on its     *)
(* own.  The runs are followed step by step for as long as their             *)
(* trajectories agree.                                                       *)

\* what a run shows of itself: the position and the locals of solve, the
\* operators the wheels have selected and every field of the ALNS object
\* except the scores, the uses and the weights inside the wheels
Trajectory(a, f) ==
    <<[a EXCEPT !.destroy_wheel = @.last_functor_id,
                !.insertion_wheel = @.last_functor_id], f>>

TwinAgree == Trajectory(alns, frame) = Trajectory(twin_alns, twin_frame)

\* the instances both runs are given
TwinInstances == {InstanceA}

TwinInit ==
    /\ data_obj \in TwinInstances
    /\ \E garbage_feasible \in BOOLEAN, garbage_quality \in GarbageQualities :
           alns = ALNSObject(garbage_feasible, garbage_quality)
    /\ frame = InitialFrame
    /\ twin_alns = alns
    /\ twin_frame = frame
    /\ bench = <<>>

\* the first run moves to the pair r, the second one to the pair t
TwinMoves(r, t) ==
    /\ alns' = r.alns
    /\ frame' = r.frame
    /\ twin_alns' = t.alns
    /\ twin_frame' = t.frame
    /\ UNCHANGED <<data_obj, bench>>

TwinRouteInitRandom ==
    /\ TwinAgree
    /\ frame.pc = "init"
    /\ Len(frame.node_ids) > 0
    /\ \E u_node \in RepDraws(Len(frame.node_ids) - 1, 0),
          u_route \in RepDraws(data_obj.nr_vehicles - 1, 0) :
           TwinMoves(route_init_random_step(alns, frame, u_node, u_route),
                     route_init_random_step(twin_alns, twin_frame, u_node, u_route))

TwinInitialization ==
    /\ TwinAgree
    /\ frame.pc = "init"
    /\ Len(frame.node_ids) = 0
    /\ TwinMoves(initialization_finish(alns, frame),
                 initialization_finish(twin_alns, twin_frame))

TwinLoopExitIterations ==
    /\ TwinAgree
    /\ frame.pc = "loop"
    /\ ~(frame.iteration_wi < max_iterations)
    /\ TwinMoves(solve_return(alns, frame, "max_iterations"),
                 solve_return(twin_alns, twin_frame, "max_iterations"))

\* the clocks of both runs have reached max_time
TwinLoopExitTime ==
    /\ TwinAgree
    /\ frame.pc = "loop"
    /\ frame.iteration > 0
    /\ TwinMoves(solve_return(alns, frame, "max_time"),
                 solve_return(twin_alns, twin_frame, "max_time"))

\* the clock of the first run has reached max_time, the clock of the second
\* run has not: the second run enters its next iteration
TwinLoopExitTimeAlone ==
    /\ TwinAgree
    /\ frame.pc = "loop"
    /\ frame.iteration > 0
    /\ frame.iteration_wi < max_iterations
    /\ frame.iteration < MaxIteration
    /\ \E u_d \in UniDraws, u_r \in UniDraws :
           TwinMoves(solve_return(alns, frame, "max_time"),
                     select_operators(twin_alns, twin_frame, u_d, u_r))

TwinSelectOperators ==
    /\ TwinAgree
    /\ frame.pc = "loop"
    /\ frame.iteration_wi < max_iterations
    /\ frame.iteration < MaxIteration
    /\ \E u_d \in UniDraws, u_r \in UniDraws :
           TwinMoves(select_operators(alns, frame, u_d, u_r),
                     select_operators(twin_alns, twin_frame, u_d, u_r))

TwinRandomDestroy ==
    /\ TwinAgree
    /\ frame.pc = "selected"
    /\ operator_names_d[alns.destroy_wheel.last_functor_id + 1] = "random_destroy"
    /\ \E draws \in DestroyDrawSeqs(NrRouted(alns.running_solution), alns.mean_removal) :
           TwinMoves(destroy_random(alns, frame, draws),
                     destroy_random(twin_alns, twin_frame, draws))

TwinRouteDestroy ==
    /\ TwinAgree
    /\ frame.pc = "selected"
    /\ operator_names_d[alns.destroy_wheel.last_functor_id + 1] = "route_destroy"
    /\ \E u \in RepDraws(data_obj.nr_vehicles - 1, 0) :
           TwinMoves(destroy_route(alns, frame, u),
                     destroy_route(twin_alns, twin_frame, u))

\* each run draws its own value of rand_number_normal
TwinDemandDestroy ==
    /\ TwinAgree
    /\ frame.pc = "selected"
    /\ operator_names_d[alns.destroy_wheel.last_functor_id + 1] = "demand_destroy"
    /\ \E normal_draw \in NormalDraws, twin_normal_draw \in NormalDraws :
           TwinMoves(destroy_demand(alns, frame, normal_draw),
                     destroy_demand(twin_alns, twin_frame, twin_normal_draw))

TwinBasicGreedy ==
    /\ TwinAgree
    /\ frame.pc = "destroyed"
    /\ operator_names_r[alns.insertion_wheel.last_functor_id + 1] = "basic_greedy"
    /\ TwinMoves(repair_basic(alns, frame), repair_basic(twin_alns, twin_frame))

TwinRandomGreedy ==
    /\ TwinAgree
    /\ frame.pc = "destroyed"
    /\ operator_names_r[alns.insertion_wheel.last_functor_id + 1] = "random_greedy"
    /\ \E draws \in GreedyDrawSeqs(Len(frame.removed_customers)) :
           TwinMoves(repair_random(alns, frame, draws),
                     repair_random(twin_alns, twin_frame, draws))

\* both runs are runs of the same build
TwinDeepGreedy ==
    /\ TwinAgree
    /\ frame.pc = "destroyed"
    /\ operator_names_r[alns.insertion_wheel.last_functor_id + 1] = "deep_greedy"
    /\ \E unchecked \in BOOLEAN :
           TwinMoves(repair_deep(alns, frame, unchecked),
                     repair_deep(twin_alns, twin_frame, unchecked))

\* each run measures its own execution time
TwinEvaluateIteration ==
    /\ TwinAgree
    /\ frame.pc = "repaired"
    /\ \E p \in RelevanceDraws, u_accept \in AcceptDraws,
          execution_time \in ExecutionTimes, twin_execution_time \in ExecutionTimes :
           TwinMoves(evaluate_iteration(alns, frame, p, u_accept, execution_time),
                     evaluate_iteration(twin_alns, twin_frame, p, u_accept,
                         twin_execution_time))

TwinNext ==
    \/ TwinRouteInitRandom
    \/ TwinInitialization
    \/ TwinLoopExitIterations
    \/ TwinLoopExitTime
    \/ TwinLoopExitTimeAlone
    \/ TwinSelectOperators
    \/ TwinRandomDestroy
    \/ TwinRouteDestroy
    \/ TwinDemandDestroy
    \/ TwinBasicGreedy
    \/ TwinRandomGreedy
    \/ TwinDeepGreedy
    \/ TwinEvaluateIteration

SpecTwin == TwinInit /\ [][TwinNext]_vars

\* C9: two runs of solve on the same instance with the same hyperparameters
\* and the same seed take the same sequence of operator choices and
\* acceptance decisions, and end with identical best routes and an identical
\* iteration count: neither the hardware entropy nor the measured time
\* changes the trajectory
C9_Deterministic ==
    /\ TwinAgree
    /\ (frame.pc = "returned" /\ twin_frame.pc = "returned") =>
           /\ frame.returned[1].solution_representation
                  = twin_frame.returned[1].solution_representation
           /\ alns.iterations = twin_alns.iterations

-----------------------------------------------------------------------------
(* Start times of the routes *)

\* start_times[r] of every non-empty route r is the latest departure that
\* reaches the customer now first in r at the opening of its window
StartTimesConsistent(sol) ==
    \A route_id \in DOMAIN sol.solution_representation :
        Len(sol.solution_representation[route_id]) > 0 =>
            LET first == sol.solution_representation[route_id][1]
            IN  sol.start_times[route_id] =
                    Max(0, data_obj.start_window[first]
                           - data_obj.time_cube[sol.load_levels[first]][0][first + 1])

\* C11: in the running solution after every operator invocation, and in the
\* solution solve returns, the start time of every non-empty route equals
\* max(0, start_window[first] - travel(load_level[first], depot, first)) for
\* the customer currently first in the route
C11_StartTimesFollowFirstCustomer ==
    /\ AfterOperator => StartTimesConsistent(alns.running_solution)
    /\ frame.pc = "returned" => StartTimesConsistent(frame.returned[1])

-----------------------------------------------------------------------------
(* Destroy operators *)

\* the customers of the list removed
ListSet(removed) == {removed[k] : k \in 1..Len(removed)}

\* route without the customers of the list removed, in the order of route
Without(route, removed) == SelectSeq(route, LAMBDA c : c \notin ListSet(removed))

\* what a destroy operator owes its caller: pre and post are the solution
\* before and after the call, removed is the returned list
DestroyContract(pre, post, removed) ==
    /\ \A i, j \in 1..Len(removed) : i # j => removed[i] # removed[j]
    /\ ListSet(removed) = {c \in Customers : Occurrences(pre, c) > 0
                                              /\ Occurrences(post, c) = 0}
    /\ \A route_id \in DOMAIN pre.solution_representation :
           post.solution_representation[route_id]
               = Without(pre.solution_representation[route_id], removed)

-----------------------------------------------------------------------------
(* The bench: one Solution object, evaluated from scratch for a routing of   *)
(* all or of some of the customers (the state a destroy operator leaves      *)
(* behind), on which one function of the evaluation or one operator is       *)
(* called once.  bench.pre is the object before the call, bench.mid the      *)
(* object between the two evaluations of a probe, bench.sol the object       *)
(* after the call.                                                           *)

\* one customer of demand 5 with window [10,20], service time 2, three time
\* units away from the depot
InstanceSingle ==
    MakeData(1,
        [i \in 0..0 |-> 5],
        [i \in 0..0 |-> 2],
        [i \in 0..0 |-> 10],
        [i \in 0..0 |-> 20],
        << <<0, 3>>, <<3, 0>> >>, 10, 5)

\* travel times of two customers 50 apart, both depot_time from the depot
TimeBaseWindows(depot_time) ==
    <<  <<0, depot_time, depot_time>>,
        <<depot_time, 0, 50>>,
        <<depot_time, 50, 0>> >>

\* two customers with the windows [0,5] and [100,110]; one load level
InstanceWindows(depot_time, service_time) ==
    MakeData(2,
        [i \in 0..1 |-> 1],
        [i \in 0..1 |-> service_time],
        [i \in 0..1 |-> <<0, 100>>[i + 1]],
        [i \in 0..1 |-> <<5, 110>>[i + 1]],
        TimeBaseWindows(depot_time), 4, 2)

\* the depot as far from the customers as they are from each other, next to
\* the customers, and at the first customer's closing distance
DepotTimes == {0, 5, 50}
ServiceTimes == {0, 2}

WindowInstances ==
    {InstanceWindows(depot_time, service_time) :
        depot_time \in DepotTimes, service_time \in ServiceTimes}

\* three unit demands, two vehicles of capacity 3: one route can take every
\* customer
InstanceWide ==
    MakeData(2,
        [i \in 0..2 |-> 1],
        [i \in 0..2 |-> 1],
        [i \in 0..2 |-> <<0, 3, 0>>[i + 1]],
        [i \in 0..2 |-> <<20, 8, 5>>[i + 1]],
        TimeBaseA, 1, 3)

\* demands 1,1,2 and windows that differ: none of the normalised matrices of
\* the Shaw removal divides by 0
InstanceVaried ==
    MakeData(2,
        [i \in 0..2 |-> <<1, 1, 2>>[i + 1]],
        [i \in 0..2 |-> 1],
        [i \in 0..2 |-> <<0, 3, 0>>[i + 1]],
        [i \in 0..2 |-> <<20, 8, 5>>[i + 1]],
        TimeBaseA, 1, 2)

BenchInstances ==
    {InstanceA, InstanceB, InstanceSingle, InstanceWide, InstanceVaried}
        \cup WindowInstances

\* the sequences without repetition over the set S
PermSeqs(S) ==
    {s \in UNION {[1..k -> S] : k \in 0..Cardinality(S)} :
        \A i, j \in DOMAIN s : i # j => s[i] # s[j]}

\* the routings a run can hold between a destroy and a repair operator:
\* no customer twice, every route below the padded capacity
Routings ==
    {r \in [RouteIds -> PermSeqs(Customers)] :
        /\ \A a, b \in RouteIds :
               a # b => \A i \in DOMAIN r[a], j \in DOMAIN r[b] : r[a][i] # r[b][j]
        /\ \A a \in RouteIds :
               route_load(r[a]) - data_obj.vehicle_cap < data_obj.add_pseudo_capacity}

\* the penalty weights of a new ALNS object
BenchWeight == 1 * WeightScale

\* the customers sol routes nowhere
Unrouted(sol) == {c \in Customers : Occurrences(sol, c) = 0}

\* the bench after the call op with the arguments (route_id, pos, customers)
\* that has led from pre over mid to r.sol
BenchCall(op, pre, mid, r, route_id, pos, customers) ==
    [kind |-> "solution", op |-> op, pre |-> pre, mid |-> mid, sol |-> r.sol,
     thrown |-> r.thrown, cost |-> r.cost, route_id |-> route_id, pos |-> pos,
     customers |-> customers, scope |-> -1]

BenchNew(sol) ==
    BenchCall("new", sol, sol, [sol |-> sol, thrown |-> FALSE, cost |-> 0], 0, 0, <<>>)

\* the routing the Solution object is to be constructed for
BenchSolutionInit ==
    /\ data_obj \in BenchInstances
    /\ \E r \in Routings : bench = [kind |-> "routing", solution_rep |-> r]

\* the solve variables rest while the bench works
BenchMoves(b) ==
    /\ bench' = b
    /\ UNCHANGED <<data_obj, alns, frame, twin_alns, twin_frame>>

\* the main constructor of Solution: evaluate_solution on the routing
BenchEvaluate ==
    /\ bench.kind = "routing"
    /\ BenchMoves(BenchNew(NewSolution(bench.solution_rep, BenchWeight, BenchWeight)))

BenchFresh == bench.kind = "solution" /\ bench.op = "new"

\* evaluate_insertion_position for an unrouted customer
BenchProbe ==
    /\ BenchFresh
    /\ \E customer_id \in Unrouted(bench.sol), route_id \in RouteIds :
         \E ins_pos \in 0..Len(bench.sol.solution_representation[route_id]) :
           BenchMoves(BenchCall("probe", bench.sol,
               evaluate_change(InsertCustomer(bench.sol, route_id, customer_id, ins_pos),
                   route_id, ins_pos, BenchWeight, BenchWeight).sol,
               evaluate_insertion_position(bench.sol, BenchWeight, BenchWeight,
                   route_id, customer_id, ins_pos),
               route_id, ins_pos, <<customer_id>>))

\* evaluate_insertion_chain for two unrouted customers
BenchProbeChain ==
    /\ BenchFresh
    /\ \E customer_ids \in PermSeqs(Unrouted(bench.sol)), route_id \in RouteIds :
         \E ins_pos \in 0..Len(bench.sol.solution_representation[route_id]) :
           /\ Len(customer_ids) = 2
           /\ BenchMoves(BenchCall("chain", bench.sol,
                  evaluate_change(InsertChain(bench.sol, route_id, customer_ids, ins_pos),
                      route_id, ins_pos + Len(customer_ids) - 1,
                      BenchWeight, BenchWeight).sol,
                  evaluate_insertion_chain(bench.sol, BenchWeight, BenchWeight,
                      route_id, customer_ids, ins_pos),
                  route_id, ins_pos, customer_ids))

\* evaluate_removal_position for a routed customer
BenchProbeRemoval ==
    /\ BenchFresh
    /\ \E route_id \in RouteIds :
         \E rem_pos \in 0..(Len(bench.sol.solution_representation[route_id]) - 1) :
           BenchMoves(BenchCall("removal", bench.sol,
               evaluate_change(
                   [bench.sol EXCEPT !.solution_representation[route_id] =
                                         remove_at(@, rem_pos)],
                   route_id, rem_pos - 1, BenchWeight, BenchWeight).sol,
               evaluate_removal_position(bench.sol, BenchWeight, BenchWeight,
                   route_id, rem_pos),
               route_id, rem_pos,
               <<bench.sol.solution_representation[route_id][rem_pos + 1]>>))

\* the bench after get_best_insertion has returned r for customer_id
BenchBest(pre, r, customer_id, scope) ==
    [BenchCall("best", pre, pre, [sol |-> r.sol, thrown |-> FALSE, cost |-> r.best.cost],
         r.best.route_id, r.best.pos, <<customer_id>>)
     EXCEPT !.scope = scope]

\* get_best_insertion for an unrouted customer, over all routes (-1) or
\* within one route
BenchBestInsertion ==
    /\ BenchFresh
    /\ \E customer_id \in Unrouted(bench.sol), scope \in {-1} \cup RouteIds :
           BenchMoves(BenchBest(bench.sol,
               get_best_insertion(customer_id, bench.sol, BenchWeight, BenchWeight, scope),
               customer_id, scope))

\* the bench after a destroy operator has returned r for the draw
\* normal_draw of rand_number_normal; scores are the values it has ranked
BenchDestroyed(op, pre, r, failed, scores, normal_draw) ==
    [kind |-> "solution", op |-> op, pre |-> pre, mid |-> pre, sol |-> r.sol,
     thrown |-> failed, cost |-> 0, route_id |-> 0, pos |-> 0,
     customers |-> r.removed, scope |-> -1, scores |-> scores,
     normal_draw |-> normal_draw,
     nr_removed_customers |-> Max(0, Min(data_obj.nr_customer - 1, normal_draw))]

\* the destroy operators work on solutions that route every customer
BenchComplete == BenchFresh /\ Complete(bench.sol)

\* WorstTravelTimeDestroyOperator::operator()
BenchWorstTravelTime ==
    /\ BenchComplete
    /\ \E normal_draw \in NormalDraws :
           BenchMoves(BenchDestroyed("worst_travel_time", bench.sol,
               WorstTravelTimeDestroyOperator(bench.sol, BenchWeight, BenchWeight,
                   normal_draw),
               WorstTravelTimeDestroyOperator(bench.sol, BenchWeight, BenchWeight,
                   normal_draw).failed,
               worst_travel_times(bench.sol), normal_draw))

\* WorstRemovalDestroyOperator::operator()
BenchWorstRemoval ==
    /\ BenchComplete
    /\ \E normal_draw \in NormalDraws :
           BenchMoves(BenchDestroyed("worst_removal", bench.sol,
               WorstRemovalDestroyOperator(bench.sol, BenchWeight, BenchWeight,
                   normal_draw),
               WorstRemovalDestroyOperator(bench.sol, BenchWeight, BenchWeight,
                   normal_draw).failed,
               <<>>, normal_draw))

-----------------------------------------------------------------------------
(* The bench for a wheel of two operators with stubbed rewards *)

\* iterations the stubbed wheel is driven for
MaxWheelIterations == 6

\* the reward the first operator always returns: the 1 of the adaptivity
\* scenario, or the reward of a new best solution; the second returns 0
FirstRewards == {1, functor_reward_best}

BenchWheelInit ==
    /\ data_obj = InstanceSingle
    /\ \E first_reward \in FirstRewards :
         bench = [kind |-> "wheel", wheel |-> RouletteWheel(2),
                  first_reward |-> first_reward, iteration |-> 0,
                  updates |-> 0, first_used |-> FALSE]

\* the score an iteration with operator functor_id hands to update_stats
stub_score(b, functor_id) ==
    IF functor_id = 0 THEN b.first_reward * WheelScale ELSE 0

\* the wheel with its statistics after an iteration that used functor_id
wheel_scored(b, functor_id) ==
    update_stats([b.wheel EXCEPT !.last_functor_id = functor_id],
        stub_score(b, functor_id))

\* the bench after an iteration that used functor_id: step 5.2 of the loop
wheel_iteration(b, functor_id) ==
    [b EXCEPT
        !.wheel = wheel_after(wheel_scored(b, functor_id), b.iteration),
        !.iteration = @ + 1,
        !.updates = IF wheel_due(b.iteration, 2) THEN @ + 1 ELSE @,
        !.first_used = IF wheel_due(b.iteration, 2)
                       THEN wheel_scored(b, functor_id).nr_uses[0] > 0 ELSE @]

\* one iteration of the driver on the wheel: selection, score, weight update
BenchWheelIteration ==
    /\ bench.kind = "wheel"
    /\ bench.iteration < MaxWheelIterations
    /\ \E u \in UniDraws :
         /\ get_random_functor_id(bench.wheel, u) >= 0
         /\ BenchMoves(wheel_iteration(bench, get_random_functor_id(bench.wheel, u)))

-----------------------------------------------------------------------------
(* The bench of step 5.1: the penalty weights at the end of an iteration *)

\* the numbers of infeasible iterations the step is called with
InfCounts == {0, 14, 15, 25, 26, 100}

\* the positions in the window of 100 iterations
WindowPositions == {inf_window_last - 1, inf_window_last}

\* the penalty weights before the step: 1, 0.85 and 1.2
PenaltyWeights == {BenchWeight, (BenchWeight * 85) \div 100, (BenchWeight * 120) \div 100}

\* every route of the routing driven the other way round
MirrorRoutes(solution_rep) ==
    [route_id \in DOMAIN solution_rep |->
        [k \in 1..Len(solution_rep[route_id]) |->
            solution_rep[route_id][Len(solution_rep[route_id]) + 1 - k]]]

\* the ALNS object at step 5.1 with sol as current solution and its mirror
\* as running solution
PenaltyObject(sol, weight, inf_count) ==
    [ALNSObject(FALSE, 0) EXCEPT
        !.capa_error_weight = weight,
        !.frame_error_weight = weight,
        !.inf_count = inf_count,
        !.current_solution = set_quality(sol, weight, weight),
        !.running_solution =
            NewSolution(MirrorRoutes(sol.solution_representation), weight, weight)]

\* the activation of solve in the first window: iteration = iteration_inf
PenaltyFrame(iteration_inf) ==
    [InitialFrame EXCEPT !.pc = "repaired", !.iteration = iteration_inf,
                         !.iteration_inf = iteration_inf]

BenchPenaltyCall(a, f) ==
    [kind |-> "penalty", pre |-> a, iteration_inf |-> f.iteration_inf,
     post |-> adapt_penalties(a, f)]

BenchPenalty ==
    /\ BenchComplete
    /\ \E weight \in PenaltyWeights, inf_count \in InfCounts, iteration_inf \in WindowPositions :
         /\ inf_count <= iteration_inf + 1
         /\ BenchMoves(BenchPenaltyCall(PenaltyObject(bench.sol, weight, inf_count),
                                        PenaltyFrame(iteration_inf)))

\* steps 3.2 to 5.4 of the loop body on the object a
BenchLoopBodyCall(a, f, p, u_accept, execution_time) ==
    [kind |-> "iteration", pre |-> a, iteration_inf |-> f.iteration_inf,
     post |-> evaluate_iteration(a, f, p, u_accept, execution_time).alns]

\* the numbers of infeasible iterations the loop body is called with
LoopBodyInfCounts == {0, 26}

BenchLoopBody ==
    /\ BenchComplete
    /\ \E weight \in PenaltyWeights, inf_count \in LoopBodyInfCounts, iteration_inf \in WindowPositions :
         \E p \in RelevanceDraws, u_accept \in AcceptDraws, execution_time \in ExecutionTimes :
             BenchMoves(BenchLoopBodyCall(PenaltyObject(bench.sol, weight, inf_count),
                 PenaltyFrame(iteration_inf), p, u_accept, execution_time))

-----------------------------------------------------------------------------
(* The bench of BetaHybridInsertionOperator *)

\* the values of beta the operator is constructed with on the bench: the one
\* of the functor and one below it, so that a list can be longer than beta
BenchBetas == {beta_hybrid_beta - 1, beta_hybrid_beta}

\* the lists a destroy operator can have returned for sol: every customer
\* that is in no route, once, in any order
RemovedLists(sol) ==
    {s \in PermSeqs(Unrouted(sol)) : Len(s) = Cardinality(Unrouted(sol))}

BenchRepaired(op, pre, r, removed_customers, beta, block) ==
    [kind |-> "solution", op |-> op, pre |-> pre, mid |-> pre, sol |-> r.sol,
     thrown |-> r.thrown, cost |-> 0, route_id |-> 0, pos |-> 0,
     customers |-> removed_customers, scope |-> -1, beta |-> beta, block |-> block]

BenchBetaHybrid ==
    /\ BenchFresh
    /\ Unrouted(bench.sol) # {}
    /\ \E removed_customers \in RemovedLists(bench.sol), beta \in BenchBetas :
         \E u_reverse \in RepDraws(1, 0), draws \in GreedyDrawSeqs(Len(removed_customers)) :
             BenchMoves(BenchRepaired("beta_hybrid", bench.sol,
                 BetaHybridInsertionOperator(bench.sol, beta, BenchWeight, BenchWeight,
                     removed_customers, u_reverse, draws),
                 removed_customers, beta,
                 beta_list(removed_customers, beta, u_reverse)))

-----------------------------------------------------------------------------
(* The bench for ShawDestroyOperator *)

\* the draws of rand_number(i - 1) for the passes i = 1 .. nr_customer - 2
ShawPicks ==
    {picks \in [1..(data_obj.nr_customer - 2) -> 0..(data_obj.nr_customer - 3)] :
        \A i \in DOMAIN picks : picks[i] <= i - 1}

\* the bench after the Shaw removal has returned r
BenchShawCall(pre, r, w, normal_draw) ==
    [kind |-> "solution", op |-> "shaw", pre |-> pre, mid |-> pre, sol |-> r.sol,
     thrown |-> r.failed, cost |-> 0, route_id |-> 0, pos |-> 0,
     customers |-> r.removed, scope |-> -1,
     reference |-> r.reference, scored |-> r.scored,
     scores |-> [k \in DOMAIN r.scored |->
                    shaw_relatedness(pre, w, r.reference, r.scored[k])],
     nr_removed_customers |-> Max(0, Min(data_obj.nr_customer - 1, normal_draw))]

\* ShawDestroyOperator::operator() with the weights of "shaw_destroy", on the
\* instances whose normalised matrices are defined
BenchShaw ==
    /\ BenchComplete
    /\ data_obj.nr_customer >= 3
    /\ ShawScale > 0
    /\ \E normal_draw \in NormalDraws, u_start \in Customers, picks \in ShawPicks :
           BenchMoves(BenchShawCall(bench.sol,
               ShawDestroyOperator(bench.sol, shaw_weights, BenchWeight, BenchWeight,
                   normal_draw, u_start, picks),
               shaw_weights, normal_draw))

-----------------------------------------------------------------------------
(* The bench for the destroy operators that take the customers of highest rank *)

\* BiggestDemandDestroyOperator::operator()
BenchBiggestDemand ==
    /\ BenchComplete
    /\ \E normal_draw \in NormalDraws :
           BenchMoves(BenchDestroyed("biggest_demand", bench.sol,
               BiggestDemandDestroyOperator(bench.sol, BenchWeight, BenchWeight,
                   normal_draw),
               BiggestDemandDestroyOperator(bench.sol, BenchWeight, BenchWeight,
                   normal_draw).failed,
               data_obj.demand, normal_draw))

\* the node_pair_potential_matrix of a new ALNS object, and the matrix after
\* update_historic_matrices has seen the mirror of sol as running solution
NodePairPotentials(sol) ==
    {Matrix(data_obj.nr_nodes, DBL_MAX),
     update_historic_matrices(PenaltyObject(sol, BenchWeight, 0))
         .node_pair_potential_matrix}

\* NodePairDestroyOperator::operator()
BenchNodePair ==
    /\ BenchComplete
    /\ \E normal_draw \in NormalDraws, potential \in NodePairPotentials(bench.sol) :
           BenchMoves(BenchDestroyed("node_pair", bench.sol,
               NodePairDestroyOperator(bench.sol, potential, BenchWeight, BenchWeight,
                   normal_draw),
               NodePairDestroyOperator(bench.sol, potential, BenchWeight, BenchWeight,
                   normal_draw).failed,
               node_pair_historic_perf(bench.sol, potential), normal_draw))

-----------------------------------------------------------------------------
(* The bench specification: one Solution or one wheel under one call *)

BenchInit ==
    /\ BenchSolutionInit \/ BenchWheelInit
    /\ alns = <<>>
    /\ frame = <<>>
    /\ twin_alns = <<>>
    /\ twin_frame = <<>>

BenchNext ==
    \/ BenchEvaluate
    \/ BenchProbe
    \/ BenchProbeChain
    \/ BenchProbeRemoval
    \/ BenchBestInsertion
    \/ BenchWorstTravelTime
    \/ BenchWorstRemoval
    \/ BenchWheelIteration
    \/ BenchPenalty
    \/ BenchLoopBody
    \/ BenchBetaHybrid
    \/ BenchShaw
    \/ BenchBiggestDemand
    \/ BenchNodePair

SpecBench == BenchInit /\ [][BenchNext]_vars

-----------------------------------------------------------------------------
(* C12: the loads after a local evaluation *)

\* the demand the vehicle still carries when it reaches position k of route
LoadFrom(route, k) == SumSeq([i \in 1..(Len(route) - k + 1) |-> data_obj.demand[route[i + k - 1]]])

\* level is the bucket of load: the first one whose upper bound reaches it
IsBucketOf(level, load) ==
    /\ level >= 0
    /\ load <= (level + 1) * data_obj.load_bucket_size
    /\ level > 0 => load > level * data_obj.load_bucket_size

LoadsCorrect(sol, route_id) ==
    /\ \A k \in 1..Len(sol.solution_representation[route_id]) :
         /\ sol.loads[sol.solution_representation[route_id][k]]
                = LoadFrom(sol.solution_representation[route_id], k)
         /\ IsBucketOf(sol.load_levels[sol.solution_representation[route_id][k]],
                sol.loads[sol.solution_representation[route_id][k]])
    /\ \A k \in 2..Len(sol.solution_representation[route_id]) :
         sol.loads[sol.solution_representation[route_id][k]]
             <= sol.loads[sol.solution_representation[route_id][k - 1]]

\* the bench holds the solution right after evaluate_change, called with the
\* insertion position, the last position of the inserted block, or the
\* position before the removed one
AfterLocalEvaluation ==
    /\ bench.kind = "solution"
    /\ bench.op \in {"probe", "chain", "removal"}

\* C12: after evaluate_change following a single insertion at p (called with
\* p), a block insertion (called with the last inserted position) or a removal
\* at p (called with p - 1, p = 0 included), every customer of the route
\* carries as load the sum of the demands from its position on, the loads do
\* not increase along the route, and every load level is the bucket of its load.
C12_LoadsAfterLocalEvaluation ==
    AfterLocalEvaluation => LoadsCorrect(bench.mid, bench.route_id)

\* a block was put before a customer that stayed in the route, so the loads
\* of the block build on the load behind it
C12_Witness ==
    /\ AfterLocalEvaluation
    /\ bench.op = "chain"
    /\ bench.pos < Len(bench.pre.solution_representation[bench.route_id])
    /\ bench.mid.loads[bench.customers[1]] > data_obj.demand[bench.customers[1]]
                                             + data_obj.demand[bench.customers[2]]

-----------------------------------------------------------------------------
(* C13: the visit times of an evaluated route *)

\* the node the vehicle comes from when it drives to position k of route
PrevNode(route, k) == IF k = 1 THEN 0 ELSE route[k - 1] + 1

\* the travel time of the arc into position k, at the load level of the
\* customer at its end
ArcTime(sol, route, k) ==
    data_obj.time_cube[sol.load_levels[route[k]]][PrevNode(route, k)][route[k] + 1]

\* the arc from the last customer back to the depot, driven empty
ReturnArc(route) ==
    data_obj.time_cube[0][IF Len(route) = 0 THEN 0 ELSE route[Len(route)] + 1][0]

\* the latest departure from the depot that reaches the first customer when
\* its window opens
LatestStart(sol, route) ==
    IF Len(route) = 0 THEN 0
    ELSE Max(0, data_obj.start_window[route[1]] - ArcTime(sol, route, 1))

VisitTimesCorrect(sol, route_id, start_time) ==
    /\ \A k \in 1..Len(sol.solution_representation[route_id]) :
         /\ sol.arrival_times[sol.solution_representation[route_id][k]]
              = Max((IF k = 1 THEN start_time
                     ELSE sol.departure_times[sol.solution_representation[route_id][k - 1]])
                    + ArcTime(sol, sol.solution_representation[route_id], k),
                    data_obj.start_window[sol.solution_representation[route_id][k]])
         /\ sol.arrival_times[sol.solution_representation[route_id][k]]
              >= data_obj.start_window[sol.solution_representation[route_id][k]]
         /\ sol.departure_times[sol.solution_representation[route_id][k]]
              = sol.arrival_times[sol.solution_representation[route_id][k]]
                + data_obj.service_times[sol.solution_representation[route_id][k]]
    /\ sol.route_driving_times[route_id]
         = SumSeq([k \in 1..Len(sol.solution_representation[route_id]) |->
                      ArcTime(sol, sol.solution_representation[route_id], k)])
           + ReturnArc(sol.solution_representation[route_id])

\* the single customer with demand 5, window [10,20], travel 3 each way and
\* service 2, on the only vehicle
SingleCustomerEvaluated ==
    /\ data_obj = InstanceSingle
    /\ BenchFresh
    /\ bench.sol.solution_representation[0] = <<0>>

\* C13: in every evaluated route each arrival is the maximum of the previous
\* departure (the start time of the route for the first customer) plus the
\* travel time at the customer's load level and of the customer's start
\* window, so no arrival is before the window opens; each departure is the
\* arrival plus the service time; the driving time of the route is the sum of
\* its arc times and the empty return arc. The single customer of the example
\* gets start time 7, arrival 10, departure 12 and driving time 6.
C13_VisitTimes ==
    /\ BenchFresh =>
         \A route_id \in RouteIds :
             /\ bench.sol.start_times[route_id]
                  = LatestStart(bench.sol, bench.sol.solution_representation[route_id])
             /\ VisitTimesCorrect(bench.sol, route_id, bench.sol.start_times[route_id])
    /\ AfterLocalEvaluation /\ ~bench.thrown =>
         VisitTimesCorrect(bench.mid, bench.route_id,
             LatestStart(bench.mid, bench.mid.solution_representation[bench.route_id]))
    /\ SingleCustomerEvaluated =>
         /\ bench.sol.start_times[0] = 7
         /\ bench.sol.arrival_times[0] = 10
         /\ bench.sol.departure_times[0] = 12
         /\ bench.sol.route_driving_times[0] = 6
         /\ bench.sol.driving_time = 6

\* the example route has been evaluated and its vehicle leaves at 7
C13_Witness ==
    /\ SingleCustomerEvaluated
    /\ bench.sol.start_times[0] = 7

-----------------------------------------------------------------------------
(* C14: the frame errors of the two customers with distant windows *)

\* the bench holds a newly evaluated solution whose routes are those of S
FreshWithRoutes(S) ==
    /\ BenchFresh
    /\ {bench.sol.solution_representation[route_id] : route_id \in RouteIds} = S

\* customer 0 has the window [0,5], customer 1 the window [100,110]
EarlyThenLate == FreshWithRoutes({<<0, 1>>, <<>>})
LateThenEarly == FreshWithRoutes({<<1, 0>>, <<>>})
Split == FreshWithRoutes({<<0>>, <<1>>})

-----------------------------------------------------------------------------
(* C15: the adaptivity of the wheel *)

\* the wheel has gone through at least one weight update
WheelUpdated == bench.kind = "wheel" /\ bench.updates >= 1

\* C15 as stated: with decay 0.1 and min_weight 1, when the first of two
\* operators always receives reward 1 and the second reward 0, after the
\* weight updates the first weight is at least twice the second.
C15_FactorTwoAsStated ==
    WheelUpdated /\ bench.first_reward = 1 =>
        bench.wheel.weights[0] >= 2 * bench.wheel.weights[1]

\* C15, amended: after every weight update the second weight is min_weight
\* and the first weight is not below it. With reward 1 the first weight is
\* min_weight as well, so the two weights are equal; with the reward of a new
\* best solution (33) the first weight is at least twice the second after
\* every update whose window has used the first operator.
C15_WheelAdaptivity ==
    WheelUpdated =>
        /\ bench.wheel.weights[1] = functor_min_weight * WheelScale
        /\ bench.wheel.weights[0] >= bench.wheel.weights[1]
        /\ bench.first_reward = 1 =>
               bench.wheel.weights[0] = functor_min_weight * WheelScale
        /\ bench.first_reward = functor_reward_best /\ bench.first_used =>
               bench.wheel.weights[0] >= 2 * bench.wheel.weights[1]

\* three updates have passed, each with the first operator rewarded by 1 in
\* its window, and the weights are still equal
C15_Witness ==
    /\ WheelUpdated
    /\ bench.first_reward = 1
    /\ bench.updates = 3
    /\ bench.first_used
    /\ bench.wheel.weights[0] = bench.wheel.weights[1]

-----------------------------------------------------------------------------
(* C16: an insertion probe leaves the solution as it was *)

\* the customers sol has in a route
Routed(sol) == Customers \ Unrouted(sol)

\* a and b have the same routes, the same aggregates, the same caches per
\* route and the same caches for every customer that is in a route
SameSolution(a, b) ==
    /\ a.solution_representation = b.solution_representation
    /\ a.driving_time = b.driving_time
    /\ a.capa_error = b.capa_error
    /\ a.frame_error = b.frame_error
    /\ a.solution_quality = b.solution_quality
    /\ a.is_feasible = b.is_feasible
    /\ a.start_times = b.start_times
    /\ a.route_driving_times = b.route_driving_times
    /\ a.route_capa_errors = b.route_capa_errors
    /\ a.route_frame_errors = b.route_frame_errors
    /\ a.route_qualities = b.route_qualities
    /\ \A c \in Routed(a) :
         /\ a.route_chromosome[c] = b.route_chromosome[c]
         /\ a.loads[c] = b.loads[c]
         /\ a.load_levels[c] = b.load_levels[c]
         /\ a.arrival_times[c] = b.arrival_times[c]
         /\ a.departure_times[c] = b.departure_times[c]

\* the bench holds the solution an insertion probe has returned from
AfterInsertionProbe ==
    /\ bench.kind = "solution"
    /\ bench.op \in {"probe", "chain", "best"}

\* C16: evaluate_insertion_position, evaluate_insertion_chain and
\* get_best_insertion leave the solution exactly as it was before the call -
\* routes, caches and aggregates - when the probe returns a cost and when it
\* ends with InfeasibilityException.
C16_ProbeLeavesSolution ==
    AfterInsertionProbe => SameSolution(bench.pre, bench.sol)

-----------------------------------------------------------------------------
(* C17: get_best_insertion finds the first minimum over the admissible positions *)

\* the routes get_best_insertion scans for the argument scope
ScopeRoutes(scope) == IF scope >= 0 THEN {scope} ELSE RouteIds

\* the positions of the scope at which customer_id keeps the capacity error
\* of the route below the pseudo capacity
Candidates(pre, customer_id, scope) ==
    {cand \in ScopeRoutes(scope) \X (0..data_obj.nr_customer) :
        /\ cand[2] <= Len(pre.solution_representation[cand[1]])
        /\ route_load(pre.solution_representation[cand[1]]) + data_obj.demand[customer_id]
             - data_obj.vehicle_cap < data_obj.add_pseudo_capacity}

\* the change of solution_quality by the insertion at cand, evaluated from
\* scratch
InsertionDelta(pre, customer_id, cand) ==
    NewSolution(
        [pre.solution_representation EXCEPT ![cand[1]] = insert_at(@, cand[2], customer_id)],
        BenchWeight, BenchWeight).solution_quality
    - pre.solution_quality

\* cand comes before other in the scan of get_best_insertion
ScannedBefore(cand, other) ==
    \/ cand[1] < other[1]
    \/ cand[1] = other[1] /\ cand[2] < other[2]

IsFirstMinimum(pre, customer_id, scope, best, cost) ==
    /\ best \in Candidates(pre, customer_id, scope)
    /\ cost = InsertionDelta(pre, customer_id, best)
    /\ \A cand \in Candidates(pre, customer_id, scope) :
         /\ InsertionDelta(pre, customer_id, cand) >= cost
         /\ InsertionDelta(pre, customer_id, cand) = cost => ~ScannedBefore(cand, best)

\* get_best_insertion has returned and the scope had an admissible position
AfterBestInsertion ==
    /\ bench.kind = "solution"
    /\ bench.op = "best"
    /\ Candidates(bench.pre, bench.customers[1], bench.scope) # {}

\* C17: get_best_insertion returns the position of its scope with the least
\* change of quality among all positions whose insertion keeps the capacity
\* error of the route below the pseudo capacity, the first such position in
\* scan order; leaving a route at its first InfeasibilityException skips no
\* position of that kind.
C17_BestInsertionIsFirstMinimum ==
    AfterBestInsertion =>
        IsFirstMinimum(bench.pre, bench.customers[1], bench.scope,
            <<bench.route_id, bench.pos>>, bench.cost)

\* the scan has left route 0 at its first position with an
\* InfeasibilityException and has found the best position in route 1, which
\* has a customer already
C17_Witness ==
    /\ AfterBestInsertion
    /\ bench.scope = -1
    /\ Candidates(bench.pre, bench.customers[1], 0) = {}
    /\ bench.route_id = 1
    /\ Len(bench.pre.solution_representation[1]) > 0

-----------------------------------------------------------------------------
(* C20: the scores of WorstTravelTime *)

\* the travel time of the arc that leaves position k of route: the arc into
\* the next customer, or the empty return to the depot
OutgoingArc(sol, route, k) ==
    IF k < Len(route) THEN ArcTime(sol, route, k + 1) ELSE ReturnArc(route)

AfterWorstTravelTime ==
    /\ bench.kind = "solution"
    /\ bench.op = "worst_travel_time"

\* C20: WorstTravelTime scores every routed customer, whatever its id and its
\* position, by the travel time of its incoming arc plus the travel time of
\* its outgoing arc (to the next customer, or to the depot if it is last).
C20_ScoresAreIncomingPlusOutgoing ==
    AfterWorstTravelTime =>
        \A route_id \in RouteIds :
            \A k \in 1..Len(bench.pre.solution_representation[route_id]) :
                bench.scores[bench.pre.solution_representation[route_id][k]]
                    = ArcTime(bench.pre, bench.pre.solution_representation[route_id], k)
                      + OutgoingArc(bench.pre,
                            bench.pre.solution_representation[route_id], k)

-----------------------------------------------------------------------------
(* C19: WorstRemoval removes the sampled number of customers *)

\* the routes without the customer c
RoutesWithout(routes, c) ==
    [route_id \in DOMAIN routes |-> SelectSeq(routes[route_id], LAMBDA x : x # c)]

\* the solution_quality of the routes, evaluated from scratch
QualityOf(routes) == NewSolution(routes, BenchWeight, BenchWeight).solution_quality

\* c is routed and no routed customer gains more quality by its removal
IsWorst(routes, c) ==
    /\ \E route_id \in DOMAIN routes : \E k \in 1..Len(routes[route_id]) :
           routes[route_id][k] = c
    /\ \A route_id \in DOMAIN routes : \A k \in 1..Len(routes[route_id]) :
           QualityOf(RoutesWithout(routes, routes[route_id][k]))
               >= QualityOf(RoutesWithout(routes, c))

\* removed lists customers taken from routes one at a time, each the worst
\* of the routes at its moment, and final is what is left
RECURSIVE RemovedWorstFirst(_, _, _)
RemovedWorstFirst(routes, removed, final) ==
    IF removed = <<>> THEN final = routes
    ELSE /\ IsWorst(routes, Head(removed))
         /\ RemovedWorstFirst(RoutesWithout(routes, Head(removed)), Tail(removed), final)

AfterWorstRemoval ==
    /\ bench.kind = "solution"
    /\ bench.op = "worst_removal"

\* C19: WorstRemoval with the sampled removal count k, clipped to
\* [0, nr_customer - 1], removes exactly k customers from the routes, one at a
\* time, each the routed customer whose removal gains the most quality in the
\* solution at that moment, and returns those k ids.
C19_WorstRemovalRemovesK ==
    AfterWorstRemoval =>
        /\ ~bench.thrown
        /\ Len(bench.customers) = bench.nr_removed_customers
        /\ Cardinality(Unrouted(bench.sol)) = bench.nr_removed_customers
        /\ RemovedWorstFirst(bench.pre.solution_representation, bench.customers,
               bench.sol.solution_representation)

-----------------------------------------------------------------------------
(* The historic matrices and the diversity score *)

\* the nodes of the historic matrices: the depot 0 and customer c as c + 1
HistoricNodes == 0..(data_obj.nr_nodes - 1)

\* a non-empty route of sol drives from node i to node j
Traverses(sol, i, j) ==
    \E route_id \in DOMAIN sol.solution_representation :
        /\ Len(sol.solution_representation[route_id]) > 0
        /\ \E k \in 1..(Len(sol.solution_representation[route_id]) + 1) :
               /\ RouteArcs(sol.solution_representation[route_id])[k].from = i
               /\ RouteArcs(sol.solution_representation[route_id])[k].to = j

\* the loop body from update_historic_matrices on runs in this step
IterationEvaluated == frame.pc = "repaired" /\ frame'.pc = "loop"

\* the entries of arc (i, j) follow the running solution of this iteration
HistoricEntryFollows(i, j) ==
    IF Traverses(alns.running_solution, i, j)
    THEN /\ alns'.node_pair_potential_matrix[i][j]
                = Min(alns.node_pair_potential_matrix[i][j],
                      alns.running_solution.driving_time)
         /\ alns'.node_pair_useage_matrix[i][j]
                = alns.node_pair_useage_matrix[i][j] + 1
    ELSE /\ alns'.node_pair_potential_matrix[i][j]
                = alns.node_pair_potential_matrix[i][j]
         /\ alns'.node_pair_useage_matrix[i][j]
                = alns.node_pair_useage_matrix[i][j]

\* C22: in every iteration and for every arc (i, j), depot arcs in both
\* directions included, the potential of an arc the post-repair running
\* solution traverses becomes the minimum of its old value and
\* running.driving_time and its usage grows by one, and the entries of every
\* other arc stay; so the potential is the minimum driving time over the
\* iterations that traversed the arc, it never increases, and the usage
\* counts those iterations
C22_HistoricMatrices ==
    [][IterationEvaluated
           => \A i \in HistoricNodes : \A j \in HistoricNodes :
                  HistoricEntryFollows(i, j)]_vars

\* the running solution reaches the diversity branch of step 4.1: it is not
\* better than the current solution
DiversityComputed ==
    /\ frame.pc = "repaired"
    /\ ~(alns.running_solution.solution_quality
            < alns.current_solution.solution_quality)

\* the usage matrix get_diversity reads: the one update_historic_matrices
\* leaves in this iteration
UsageRead == update_historic_matrices(alns).node_pair_useage_matrix

\* the diversity get_diversity returns in this iteration
DiversityReturned == get_diversity(alns.running_solution, UsageRead, frame.iteration)

\* new_iter times the sum over the arcs of a route of 1 - usage / new_iter,
\* the quotient being exact
ExactRouteDiversity(route, new_iter) ==
    SumSeq([k \in 1..(Len(route) + 1) |->
        new_iter - UsageRead[RouteArcs(route)[k].from][RouteArcs(route)[k].to]])

\* new_iter times the sum over the arcs of all non-empty routes of sol
ExactDiversity(sol, new_iter) ==
    SumVec([route_id \in DOMAIN sol.solution_representation |->
               IF Len(sol.solution_representation[route_id]) > 0
               THEN ExactRouteDiversity(sol.solution_representation[route_id], new_iter)
               ELSE 0],
           Size(sol.solution_representation))

NonEmptyRoutes(sol) ==
    {route_id \in DOMAIN sol.solution_representation :
        Len(sol.solution_representation[route_id]) > 0}

\* C23: the diversity score of the running solution in iteration iter is the
\* sum over its traversed arcs, depot arcs of non-empty routes included, of
\* 1 - usage[arc] / (iter + 1) with an exact quotient, divided by
\* n_customers + number of non-empty routes, and it lies in [0, 1]
C23_DiversityIsExactFraction ==
    DiversityComputed
        => /\ DiversityReturned.num * (frame.iteration + 1)
                  = ExactDiversity(alns.running_solution, frame.iteration + 1)
           /\ DiversityReturned.den
                  = data_obj.nr_customer + Cardinality(NonEmptyRoutes(alns.running_solution))
           /\ DiversityReturned.num >= 0
           /\ DiversityReturned.num <= DiversityReturned.den

-----------------------------------------------------------------------------
(* The feedback steps of the loop: wheels and penalty weights *)

\* the scored iterations a wheel has aggregated since its last weight update
ScoredIterations(wheel) == SumVec(wheel.nr_uses, wheel.nr_functors)

\* the window of a wheel: M * n_operators iterations
WheelWindow(wheel) == wheel.nr_functors * wheel_memory_length

\* the iteration that is evaluated in this step completes the window of wheel
WindowCompleted(wheel) == ScoredIterations(wheel) + 1 = WheelWindow(wheel)

\* update_weights has run on the wheel in this step: its counts are reset
WeightsUpdated(wheel_after_step) == ScoredIterations(wheel_after_step) = 0

\* without an update the step credits the operator the wheel has selected in
\* this iteration, and no other
CreditsSelected(wheel, wheel_after_step) ==
    WeightsUpdated(wheel_after_step)
    \/ \A functor_id \in 0..(wheel.nr_functors - 1) :
           wheel_after_step.nr_uses[functor_id]
               = wheel.nr_uses[functor_id]
                 + (IF functor_id = wheel.last_functor_id THEN 1 ELSE 0)

\* C24: each wheel's weight update is triggered once every M * n_operators
\* iterations, so every update_weights call, the first one included,
\* aggregates exactly M * n_operators scored iterations, each of them
\* crediting the operator that wheel selected in the same iteration
C24_WheelWindow ==
    [][IterationEvaluated
           => /\ WeightsUpdated(alns'.destroy_wheel) <=> WindowCompleted(alns.destroy_wheel)
              /\ WeightsUpdated(alns'.insertion_wheel)
                     <=> WindowCompleted(alns.insertion_wheel)
              /\ CreditsSelected(alns.destroy_wheel, alns'.destroy_wheel)
              /\ CreditsSelected(alns.insertion_wheel, alns'.insertion_wheel)]_vars

\* the factor of the feedback step for inf_count infeasible iterations out
\* of 100 and target_inf = 0.2, in percent
FeedbackFactor(inf_count) ==
    IF inf_count + 5 < 20 THEN 85 ELSE IF inf_count - 5 > 20 THEN 120 ELSE 100

PenaltyStepDone == bench.kind = "penalty"

\* C25: the penalty weights change only in the feedback step at the end of
\* every 100th iteration: both are multiplied by 0.85 if
\* inf_count/100 + 0.05 < target_inf, by 1.2 if inf_count/100 - 0.05 >
\* target_inf, and stay otherwise, and inf_count is reset to 0; the step
\* recomputes the quality of current and running, so both are qualities
\* under the same, new weights
C25_PenaltyFeedback ==
    PenaltyStepDone
        => IF bench.iteration_inf = 99
           THEN /\ bench.post.capa_error_weight
                       = (bench.pre.capa_error_weight * FeedbackFactor(bench.pre.inf_count))
                             \div 100
                /\ bench.post.frame_error_weight
                       = (bench.pre.frame_error_weight * FeedbackFactor(bench.pre.inf_count))
                             \div 100
                /\ bench.post.inf_count = 0
                /\ bench.post.current_solution
                       = evaluate_solution(bench.pre.current_solution,
                             bench.post.capa_error_weight, bench.post.frame_error_weight)
                /\ bench.post.running_solution
                       = evaluate_solution(bench.pre.running_solution,
                             bench.post.capa_error_weight, bench.post.frame_error_weight)
           ELSE bench.post = bench.pre

\* the 100th iteration of a window with 26 infeasible iterations: the weights
\* grow and the worse of two different solutions gets a new quality
C25_Witness ==
    /\ PenaltyStepDone
    /\ bench.iteration_inf = 99
    /\ bench.pre.inf_count = 26
    /\ bench.post.capa_error_weight > bench.pre.capa_error_weight
    /\ bench.pre.running_solution.solution_representation
           # bench.pre.current_solution.solution_representation
    /\ bench.post.running_solution.solution_quality
           # bench.pre.running_solution.solution_quality

-----------------------------------------------------------------------------
(* The acceptance and copy discipline of the loop body *)

LoopBodyDone == bench.kind = "iteration"

\* the running solution of the iteration is strictly better than the current
RunningIsBetter(a) ==
    a.running_solution.solution_quality < a.current_solution.solution_quality

\* sol with its quality recomputed under the penalty weights of a
Requalified(sol, a) == set_quality(sol, a.capa_error_weight, a.frame_error_weight)

\* C26 as stated: in every iteration current is replaced by running whenever
\* running.quality < current.quality, current and best are what they were
\* or a whole copy of that iteration's running solution, and the next
\* iteration starts with running equal to current in every field
C26_CopyDisciplineAsStated ==
    LoopBodyDone
        => /\ RunningIsBetter(bench.pre)
                  => bench.post.current_solution = bench.pre.running_solution
           /\ bench.post.current_solution
                  \in {bench.pre.current_solution, bench.pre.running_solution}
           /\ bench.post.solution \in {bench.pre.solution, bench.pre.running_solution}
           /\ bench.post.running_solution = bench.post.current_solution

\* C26: in every iteration current is replaced by running whenever
\* running.quality < current.quality; best is what it was or a whole copy of
\* that iteration's running solution; current is what it was or a whole copy
\* of that iteration's running solution, with its quality recomputed under
\* the new penalty weights when the iteration is the 100th of its window;
\* and the next iteration starts with running equal to current in every
\* field
C26_CopyDiscipline ==
    LoopBodyDone
        => /\ RunningIsBetter(bench.pre)
                  => bench.post.current_solution
                         = Requalified(bench.pre.running_solution, bench.post)
           /\ bench.post.current_solution
                  \in {Requalified(bench.pre.current_solution, bench.post),
                       Requalified(bench.pre.running_solution, bench.post)}
           /\ bench.iteration_inf # 99
                  => bench.post.current_solution
                         \in {bench.pre.current_solution, bench.pre.running_solution}
           /\ bench.post.solution \in {bench.pre.solution, bench.pre.running_solution}
           /\ bench.post.running_solution = bench.post.current_solution

\* a strictly better running solution replaces a different current solution
\* in the 100th iteration of a window that raises the weights, and its
\* quality is recomputed
C26_Witness ==
    /\ LoopBodyDone
    /\ bench.iteration_inf = 99
    /\ RunningIsBetter(bench.pre)
    /\ bench.post.capa_error_weight > bench.pre.capa_error_weight
    /\ bench.post.current_solution.solution_representation
           = bench.pre.running_solution.solution_representation
    /\ bench.post.current_solution # bench.pre.running_solution
    /\ bench.post.running_solution = bench.post.current_solution

-----------------------------------------------------------------------------
(* C27: BetaHybridInsertionOperator *)

AfterBetaHybrid == bench.kind = "solution" /\ bench.op = "beta_hybrid"

\* the routes with the block at position pos of route route_id
BlockAt(routes, route_id, pos, block) ==
    [routes EXCEPT ![route_id] = SubSeq(@, 1, pos) \o block \o SubSeq(@, pos + 1, Len(@))]

\* the places (route, position) that admit the whole block: the capacity
\* error of the route with the block stays below the pseudo capacity
BlockPlaces(routes, block) ==
    {cand \in RouteIds \X (0..data_obj.nr_customer) :
        /\ cand[2] <= Len(routes[cand[1]])
        /\ route_load(routes[cand[1]] \o block) - data_obj.vehicle_cap
               < data_obj.add_pseudo_capacity}

\* post has the block at a place of least quality among all its places
IsBestBlock(routes, block, post) ==
    \E cand \in BlockPlaces(routes, block) :
        /\ post = BlockAt(routes, cand[1], cand[2], block)
        /\ \A other \in BlockPlaces(routes, block) :
               QualityOf(post) <= QualityOf(BlockAt(routes, other[1], other[2], block))

\* the routings with customer c at one of its best places
BestPlaced(routes, c) ==
    {post \in {BlockAt(routes, cand[1], cand[2], <<c>>) :
                  cand \in BlockPlaces(routes, <<c>>)} :
        IsBestBlock(routes, <<c>>, post)}

\* the routings that inserting the customers of remaining one by one, each
\* at one of its best places, in any order, can end with
RECURSIVE GreedyResults(_, _)
GreedyResults(routes, remaining) ==
    IF remaining = {} THEN {routes}
    ELSE UNION {UNION {GreedyResults(post, remaining \ {c}) : post \in BestPlaced(routes, c)} :
                   c \in remaining}

\* the block case of the operator: a list of at most beta customers and a
\* place that admits it
BlockCase ==
    /\ Len(bench.customers) <= bench.beta
    /\ BlockPlaces(bench.pre.solution_representation, bench.customers) # {}

-----------------------------------------------------------------------------
(* C28: the route chromosome *)

\* customer c is in route route_id of sol
InRoute(sol, c, route_id) ==
    \E k \in 1..Len(sol.solution_representation[route_id]) :
        sol.solution_representation[route_id][k] = c

\* route_of[c] is the index of the route that contains c, for every customer
ChromosomeCorrect(sol) ==
    \A c \in Customers :
        /\ sol.route_chromosome[c] \in RouteIds
        /\ InRoute(sol, c, sol.route_chromosome[c])

\* get_customer_pos has thrown in a destroy operator
LogicErrorRaised == frame.pc = "aborted" /\ frame.error = "logic_error"

-----------------------------------------------------------------------------
(* C30: loads and load levels *)

\* the initial solution stands at the first test of the main loop
InitialSolutionBuilt == frame.pc = "loop" /\ frame.iteration = 0

\* every route's total load is strictly below vehicle_capacity +
\* pseudo_capacity
LoadsBelowPaddedCapacity(sol) ==
    \A route_id \in DOMAIN sol.solution_representation :
        route_load(sol.solution_representation[route_id])
            < data_obj.vehicle_cap + data_obj.add_pseudo_capacity

\* the load level of every routed customer is an index of the time tensor
LoadLevelsAreBuckets(sol) ==
    \A route_id \in DOMAIN sol.solution_representation :
        \A k \in 1..Len(sol.solution_representation[route_id]) :
            /\ sol.load_levels[sol.solution_representation[route_id][k]] >= 0
            /\ sol.load_levels[sol.solution_representation[route_id][k]]
                   < Size(data_obj.time_cube)

-----------------------------------------------------------------------------
(* C21: the vehicle term of the Shaw relatedness *)

\* the Shaw removal has returned after at least one pass of its selection loop
AfterShawPass ==
    bench.kind = "solution" /\ bench.op = "shaw" /\ bench.reference >= 0

\* customers q and c are in the same route of sol
ShareRoute(sol, q, c) ==
    \E route_id \in DOMAIN sol.solution_representation :
        InRoute(sol, q, route_id) /\ InRoute(sol, c, route_id)

\* the relatedness of candidate c with respect to the reference customer q
\* with the vehicle weight added exactly when they share a route
StatedRelatedness(sol, w, q, c) ==
    shaw_similarity(w, q, c)
        + (IF ShareRoute(sol, q, c) THEN w.vehicle_weight * ShawScale ELSE 0)

\* C21: in Shaw removal the vehicle term w_veh is added to the relatedness
\* score of a candidate c with respect to the reference customer q exactly
\* when c and q are in the same route, and 0 is added otherwise
C21_ShawVehicleTerm ==
    AfterShawPass =>
        \A k \in DOMAIN bench.scored :
            bench.scores[k] =
                StatedRelatedness(bench.pre, shaw_weights, bench.reference,
                    bench.scored[k])

-----------------------------------------------------------------------------
(* C29: the destroy operators that remove the customers of highest rank *)

\* BiggestDemand, WorstTravelTime or NodePair has returned
AfterRankDestroy ==
    /\ bench.kind = "solution"
    /\ bench.op \in {"biggest_demand", "worst_travel_time", "node_pair"}

\* the sampled count clipped to [0, n_customers - 1]
ClippedCount(normal_draw) ==
    IF normal_draw < 0 THEN 0
    ELSE IF normal_draw > data_obj.nr_customer - 1 THEN data_obj.nr_customer - 1
    ELSE normal_draw

\* customer a comes before customer b when the customers of highest rank are
\* taken: a higher score is a higher rank, the higher id wins a tie
TakenBefore(scores, a, b) ==
    scores[a] > scores[b] \/ (scores[a] = scores[b] /\ a > b)

\* the k customers of highest rank
HighestRanked(scores, k) ==
    {c \in Customers : Cardinality({d \in Customers : TakenBefore(scores, d, c)}) < k}

\* C29: BiggestDemand, WorstTravelTime and NodePair remove exactly k
\* customers, k being the sampled count clipped to [0, n_customers - 1]; with
\* noise parameter 0 they are the k customers of highest rank, ties broken
\* towards the higher customer id, and at least one customer stays routed
C29_RankDestroy ==
    AfterRankDestroy =>
        /\ ~bench.thrown
        /\ Len(bench.customers) = ClippedCount(bench.normal_draw)
        /\ ListSet(bench.customers)
               = HighestRanked(bench.scores, ClippedCount(bench.normal_draw))
        /\ DestroyContract(bench.pre, bench.sol, bench.customers)
        /\ \E c \in Customers : Occurrences(bench.sol, c) > 0

\* NodePair has removed a customer that shares its rank with a customer of
\* lower id that stays, after a draw above the number of customers
C29_Witness ==
    /\ bench.kind = "solution"
    /\ bench.op = "node_pair"
    /\ bench.normal_draw > data_obj.nr_customer - 1
    /\ \E a \in ListSet(bench.customers), b \in Customers \ ListSet(bench.customers) :
           bench.scores[a] = bench.scores[b] /\ a > b

====
